---------------------------- MODULE Spec2Model ----------------------------
(***************************************************************************)
(* Retrieval and indexing core of paperless-ngx-ai-agent:                  *)
(*   - DocumentIndexer._chunk_text           (src/document_indexer.py)     *)
(*   - DocumentIndexer.index_document & co.  (src/document_indexer.py)     *)
(*   - VectorStore                           (src/vector_store.py)         *)
(*   - QASystem retrieval and answering      (src/qa_system.py)            *)
(*   - the /api/qa/ask handler               (src/web_app.py)              *)
(*   - get_qa_services                       (src/web_app.py)              *)
(*   - the network requests of the core      (src/paperless_client.py,     *)
(*     src/embedding_service.py, src/ollama_classifier.py)                 *)
(*                                                                         *)
(* Texts are sequences of one-character strings.  The specifications share *)
(* the variables: SpecChunk (the chunker loop, one iteration per step),    *)
(* SpecIndex (the indexer over the vector store), SpecIndexAll (the batch  *)
(* run over several documents), SpecQA (multi-query retrieval and answer   *)
(* composition), SpecEstimate (the confidence scoring on its own),         *)
(* SpecDelete and SpecTwoIndexers (threads on one vector store),           *)
(* SpecServices (the lazy construction of the services), SpecNetwork       *)
(* (requests, responses and timeouts, with fairness) and SpecSearch (the   *)
(* filters and the query expansion of each search of one multi-query       *)
(* call, src/qa_system.py and src/metadata_extractor.py).                  *)
(***************************************************************************)
EXTENDS Integers, Sequences, FiniteSets, TLC

VARIABLES
    \* ---- chunker (_chunk_text), one loop iteration per step
    ck_text,      \* the text argument
    ck_size,      \* chunk_size
    ck_overlap,   \* overlap
    ck_start,     \* local variable start
    ck_chunks,    \* local variable chunks
    ck_windows,   \* the windows the loop has cut so far, in order
    ck_pc,        \* "call" | "loop" | "done"
    \* ---- indexer and vector store
    store,        \* the Chroma collection: a set of entries with unique ids
    version,      \* document source: which text each document holds now
    ix_last,      \* the last indexer call and what it did
    ix_again,     \* the last call repeats the call before it (same id, no force)
    ix_prev_ret,  \* then: what the call before the last returned
    ix_prev_had0, \* then: chunk 0 of the id was stored when the last call began
    ia_pc,        \* index_all_documents: "idle" | "loop"
    ia_docs,      \* index_all_documents: all_documents
    ia_pos,       \* index_all_documents: position i of the loop
    ia_stats,     \* index_all_documents: stats
    \* ---- question answering
    qa_pc,        \* "ready" | "compose" | "done"
    qa_call,      \* the call under way: operation, arguments, provider outcomes
    qa_search,    \* search_documents_multi: its locals and what it returned
    qa_docs,      \* answer_question / ask_question: relevant_docs
    qa_resp,      \* what the call returned
    \* ---- confidence estimation on its own
    ec_call,      \* _estimate_confidence: its arguments and what it returned
    \* ---- concurrent calls on one vector store
    cc_index,     \* the index_document calls under way, by thread
    cc_delete,    \* the delete_all_document_chunks call under way
    cc_search,    \* a retrieval: the chunks of the document it observed
    \* ---- the web application's services (get_qa_services)
    sv_globals,   \* embedding_service, vector_store, document_indexer, qa_system
    sv_request,   \* by request thread: where it is in get_qa_services, what it got
    sv_built,     \* how many instances of each service were constructed
    \* ---- the network calls of one operation of the core
    nw_call,      \* the operation, its calls, the one pending, what came back
    \* ---- the searches of one search_documents_multi call
    sd_call       \* its arguments, its query variants and the searches made

chunkVars == <<ck_text, ck_size, ck_overlap, ck_start, ck_chunks, ck_windows,
               ck_pc>>

indexVars == <<store, version, ix_last, ix_again, ix_prev_ret, ix_prev_had0,
               ia_pc, ia_docs, ia_pos, ia_stats>>

qaVars == <<qa_pc, qa_call, qa_search, qa_docs, qa_resp>>

concVars == <<cc_index, cc_delete, cc_search>>

svVars == <<sv_globals, sv_request, sv_built>>

extVars == <<ec_call, concVars, svVars, nw_call, sd_call>>

vars == <<ck_text, ck_size, ck_overlap, ck_start, ck_chunks, ck_windows, ck_pc,
          store, version, ix_last, ix_again, ix_prev_ret, ix_prev_had0,
          ia_pc, ia_docs, ia_pos, ia_stats,
          qa_pc, qa_call, qa_search, qa_docs, qa_resp,
          ec_call, cc_index, cc_delete, cc_search,
          sv_globals, sv_request, sv_built,
          nw_call, sd_call>>

-----------------------------------------------------------------------------
(* Bounds of the model *)

\* longest text given to the chunker
MaxTextLen == 6
\* largest chunk_size given to the chunker
MaxChunkSize == 5
\* document ids 1..MaxDocId at the document source
MaxDocId == 1

-----------------------------------------------------------------------------
(* Python string primitives *)

Alphabet == {"a", ".", "\n"}

Whitespace == {" ", "\n", "\t"}

Max(a, b) == IF a >= b THEN a ELSE b

Min(a, b) == IF a <= b THEN a ELSE b

\* all texts over the alphabet of length 0..n
TextsUpTo(n) == UNION {[1..k -> Alphabet] : k \in 0..n}

\* a Python slice index, resolved: negative counts from the end, then clamped
SliceIndex(len, i) == IF i < 0 THEN Max(len + i, 0) ELSE Min(i, len)

\* s[a:b] with 0-based positions a, b
Slice(s, a, b) ==
    LET lo == SliceIndex(Len(s), a)
        hi == SliceIndex(Len(s), b)
    IN  IF lo >= hi THEN <<>> ELSE SubSeq(s, lo + 1, hi)

\* s.rfind(c): the highest 0-based position of c in s, or -1
RFind(s, c) ==
    LET hits == {i \in 1..Len(s) : s[i] = c}
    IN  IF hits = {} THEN -1
        ELSE (CHOOSE i \in hits : \A j \in hits : j <= i) - 1

\* s.strip()
Strip(s) ==
    LET keep == {i \in 1..Len(s) : s[i] \notin Whitespace}
    IN  IF keep = {} THEN <<>>
        ELSE SubSeq(s, CHOOSE i \in keep : \A j \in keep : i <= j,
                       CHOOSE i \in keep : \A j \in keep : j <= i)

-----------------------------------------------------------------------------
(* The parts a specification leaves alone *)

NoCall == [op |-> "none", id |-> 0, force |-> FALSE, ret |-> FALSE,
           fetched |-> FALSE, chunks |-> 0, embeds |-> 0, empties |-> 0,
           adds |-> 0, stored |-> 0, raised |-> FALSE,
           lookup_failed |-> FALSE, delete_failed |-> FALSE, deleted |-> 0,
           complete |-> FALSE]

NoStats == [indexed |-> 0, skipped |-> 0, failed |-> 0]

IndexIdle ==
    /\ store = {}
    /\ version = <<>>
    /\ ix_last = NoCall
    /\ ix_again = FALSE
    /\ ix_prev_ret = FALSE
    /\ ix_prev_had0 = FALSE
    /\ ia_pc = "idle"
    /\ ia_docs = <<>>
    /\ ia_pos = 0
    /\ ia_stats = NoStats

NoQACall == [op |-> "none", n |-> 0, multi |-> FALSE, include_sources |-> FALSE,
             variants |-> "none", generation |-> "none",
             question_empty |-> FALSE, services_ok |-> TRUE]

NoSearch == [rank |-> <<>>, queries |-> <<>>, all_results |-> <<>>,
             dedup_results |-> <<>>, path |-> "none", fallback_ok |-> TRUE,
             results |-> <<>>]

NoResponse == [kind |-> "none", answer |-> "none", sources |-> <<>>,
               confidence |-> "none", status |-> 0]

QAIdle ==
    /\ qa_pc = "done"
    /\ qa_call = NoQACall
    /\ qa_search = NoSearch
    /\ qa_docs = <<>>
    /\ qa_resp = NoResponse

ChunkIdle ==
    /\ ck_text = <<>>
    /\ ck_size = 1
    /\ ck_overlap = 0
    /\ ck_start = 0
    /\ ck_chunks = <<>>
    /\ ck_windows = <<>>
    /\ ck_pc = "done"

NoEstimate == [docs |-> <<>>,
               answer |-> [lines |-> 0, len |-> 0, negative |-> FALSE],
               ret |-> "none"]

\* the threads that call index_document
IndexerThreads == {"a", "b"}

NoIndexCall == [pc |-> "off", id |-> 0, force |-> FALSE, had |-> FALSE,
                lookup_ok |-> TRUE, fetch |-> "none", idx |-> 0,
                all_success |-> TRUE, outcome |-> <<>>, ret |-> FALSE,
                overlapped |-> FALSE]

NoDelete == [pc |-> "off", id |-> 0, ids |-> {}, ret |-> FALSE, left |-> {}]

NoRetrieval == [pc |-> "off", id |-> 0, seen |-> {}]

ConcIdle ==
    /\ cc_index = [t \in IndexerThreads |-> NoIndexCall]
    /\ cc_delete = NoDelete
    /\ cc_search = NoRetrieval

\* the threads that serve requests
RequestThreads == {"r1", "r2"}

\* a service object: who constructed it and the collaborators it was given;
\* by = "none" stands for None
NoService == [by |-> "none", embeddings |-> "none", vector_store |-> "none"]

\* embedding_service = None, vector_store = None, document_indexer = None,
\* qa_system = None
NoServices == [embedding_service |-> NoService, vector_store |-> NoService,
               document_indexer |-> NoService, qa_system |-> NoService]

NoneBuilt == [embedding_service |-> 0, vector_store |-> 0,
              document_indexer |-> 0, qa_system |-> 0]

ServicesIdle ==
    /\ sv_globals = NoServices
    /\ sv_request = [t \in RequestThreads |->
                       [pc |-> "off", configured |-> FALSE, got |-> NoServices]]
    /\ sv_built = NoneBuilt

NoOperation == [op |-> "none", plan |-> <<>>, step |-> 0, wait |-> "idle",
                log |-> <<>>, returned |-> FALSE, failures |-> 0]

\* filters=None
NoFilters == [none |-> TRUE, conditions |-> {}]

NoSearchCall == [pc |-> "off", query |-> <<>>, filters |-> NoFilters,
                 use_llm |-> FALSE, queries |-> <<>>, i |-> 0,
                 searches |-> <<>>]

ExtIdle ==
    /\ ec_call = NoEstimate
    /\ ConcIdle
    /\ ServicesIdle
    /\ nw_call = NoOperation
    /\ sd_call = NoSearchCall

-----------------------------------------------------------------------------
(* _chunk_text *)

\* (a test that also accepts a split point exactly at half of chunk_size)
SplitAccepted_AtHalf(split_point, chunk_size) == 2 * split_point >= chunk_size

\* the accepted split point: 'split_point > chunk_size * 0.5'
SplitAccepted(split_point, chunk_size) == 2 * split_point > chunk_size

\* one iteration of the while loop: the chunk appended and the window's end
\* (raw_end is 'start + chunk_size'; a boundary is looked for only when
\* 'end < len(text)' held for the raw end)
ChunkWindow(text, start, chunk_size) ==
    LET end0        == start + chunk_size
        chunk0      == Slice(text, start, end0)
        split_point == Max(RFind(chunk0, "."), RFind(chunk0, "\n"))
        adjust      == end0 < Len(text) /\ SplitAccepted(split_point, chunk_size)
    IN  [chunk |-> Strip(IF adjust THEN Slice(chunk0, 0, split_point + 1) ELSE chunk0),
         end   |-> IF adjust THEN start + split_point + 1 ELSE end0,
         raw_end |-> end0,
         looked |-> end0 < Len(text),
         split_point |-> split_point]

\* 'start = end - overlap'
NextStart(end, overlap) == end - overlap

\* (an early return that sends a text of exactly chunk_size into the loop)
SingleChunk_Strict(text, chunk_size) == Len(text) < chunk_size

\* the early return of line 49: 'not text or len(text) <= chunk_size'
SingleChunk(text, chunk_size) == Len(text) = 0 \/ Len(text) <= chunk_size

\* the while loop from a given start on (used where the loop ends)
RECURSIVE ChunkFrom(_, _, _, _)
ChunkFrom(text, chunk_size, overlap, start) ==
    IF start < Len(text)
    THEN LET w == ChunkWindow(text, start, chunk_size)
         IN  <<w.chunk>> \o ChunkFrom(text, chunk_size, overlap,
                                      NextStart(w.end, overlap))
    ELSE <<>>

\* _chunk_text(text, chunk_size, overlap)
ChunkText(text, chunk_size, overlap) ==
    IF SingleChunk(text, chunk_size) THEN <<text>>
    ELSE ChunkFrom(text, chunk_size, overlap, 0)

\* a run that repeats a start never ends; the loop is cut once it has made
\* more chunks than the text has positions, which no ending run does
ChunkCap == Len(ck_text) + 1

ChunkInit ==
    /\ ck_text \in TextsUpTo(MaxTextLen)
    /\ ck_size \in 1..MaxChunkSize
    /\ ck_overlap \in 0..(ck_size - 1)
    /\ ck_start = 0
    /\ ck_chunks = <<>>
    /\ ck_windows = <<>>
    /\ ck_pc = "call"
    /\ IndexIdle
    /\ QAIdle
    /\ ExtIdle

ChunkCall ==
    /\ ck_pc = "call"
    /\ IF SingleChunk(ck_text, ck_size)
       THEN /\ ck_chunks' = <<ck_text>>
            /\ ck_pc' = "done"
       ELSE /\ ck_chunks' = <<>>
            /\ ck_pc' = "loop"
    /\ ck_start' = 0
    /\ ck_windows' = <<>>
    /\ UNCHANGED <<ck_text, ck_size, ck_overlap>>
    /\ UNCHANGED <<indexVars, qaVars, extVars>>

ChunkIter ==
    /\ ck_pc = "loop"
    /\ ck_start < Len(ck_text)
    /\ Len(ck_chunks) < ChunkCap
    /\ LET w == ChunkWindow(ck_text, ck_start, ck_size)
       IN  /\ ck_chunks' = Append(ck_chunks, w.chunk)
           /\ ck_windows' = Append(ck_windows,
                                   [start |-> ck_start, raw_end |-> w.raw_end,
                                    looked |-> w.looked,
                                    split_point |-> w.split_point,
                                    end |-> w.end])
           /\ ck_start' = NextStart(w.end, ck_overlap)
    /\ UNCHANGED <<ck_text, ck_size, ck_overlap, ck_pc>>
    /\ UNCHANGED <<indexVars, qaVars, extVars>>

ChunkReturn ==
    /\ ck_pc = "loop"
    /\ ~(ck_start < Len(ck_text))
    /\ ck_pc' = "done"
    /\ UNCHANGED <<ck_text, ck_size, ck_overlap, ck_start, ck_chunks,
                   ck_windows>>
    /\ UNCHANGED <<indexVars, qaVars, extVars>>

ChunkNext == ChunkCall \/ ChunkIter \/ ChunkReturn

SpecChunk == ChunkInit /\ [][ChunkNext]_vars

-----------------------------------------------------------------------------
(* Claims about the chunker *)

\* C1: whenever overlap < chunk_size, every iteration of the chunker's loop
\* moves start strictly forward (the stride is never zero or negative), so
\* the loop ends for every text.
C1_StrideAdvances ==
    [][(ck_pc = "loop" /\ ck_overlap < ck_size /\ ChunkIter)
          => ck_start' > ck_start]_vars

-----------------------------------------------------------------------------
(* Collaborators of the indexer *)

\* index_document chunks with chunk_size=1500, overlap=200
IndexChunkSize == 1500
IndexOverlap == 200
\* the stored text is the preview chunk_text[:500]
PreviewLen == 500

DocIds == 1..MaxDocId

Rep(c, n) == [i \in 1..n |-> c]

\* Texts a document can hold at the source: one of a single chunk ("a") and
\* one of two chunks ("a", "b") under (1500, 200).
SampleTexts ==
    << <<"a">>,
       <<"a">> \o Rep(" ", 1500) \o <<"b">> >>

NumTexts == Len(SampleTexts)

Versions == 1..NumTexts

\* what get_document can give: the document, None (the request failed), or
\* a document without text content
FetchOutcomes == {"ok", "fail", "no_content"}

\* document.get('content', '')
SourceText(v, fetch) == IF fetch = "no_content" THEN <<>> ELSE SampleTexts[v]

\* _chunk_text(content, chunk_size=1500, overlap=200) of each sample text
SampleChunks ==
    [v \in 1..NumTexts |-> ChunkText(SampleTexts[v], IndexChunkSize, IndexOverlap)]

\* EmbeddingService.generate_embedding on success: the provider's vector
Embedding(text) == <<Len(text) + 1>>

\* (a provider wrapper that hands out a zero vector for a failed request)
GenerateEmbedding_ZeroVector(text, what) ==
    IF what = "emb_empty" THEN <<0>> ELSE Embedding(text)

\* EmbeddingService.generate_embedding: [] when the request failed or the
\* response holds no embedding
GenerateEmbedding(text, what) ==
    IF what = "emb_empty" THEN <<>> ELSE Embedding(text)

\* (a chunk id that leaves out the document id)
ChunkDocId_NoDocument(doc_id, chunk_idx) ==
    "chunk_" \o ToString(chunk_idx)

\* f"{doc_id}_chunk_{chunk_idx}"
ChunkDocId(doc_id, chunk_idx) ==
    ToString(doc_id) \o "_chunk_" \o ToString(chunk_idx)

\* the id passed as an int: str(doc_id)
IntDocId(doc_id) == ToString(doc_id)

\* chroma_id = f"doc_{doc_id}"
ChromaId(doc_id) == "doc_" \o doc_id

\* VectorStore.add_document: store_ok is FALSE when the collection raises,
\* and False is returned.  collection.add never overwrites: the collection of
\* a PersistentClient skips an id it already holds and does not raise.
AddDocument(st, doc_id, text, embedding, metadata, store_ok) ==
    LET chroma_id == ChromaId(doc_id)
    IN  IF ~store_ok THEN [store |-> st, ok |-> FALSE]
        ELSE IF \E e \in st : e.id = chroma_id
             THEN [store |-> st, ok |-> TRUE]
             ELSE [store |-> st \cup {[id |-> chroma_id, text |-> text,
                                       embedding |-> embedding,
                                       metadata |-> metadata]},
                   ok |-> TRUE]

\* (a lookup that leaves out the "doc_" prefix of the ids)
DocumentExists_NoPrefix(st, doc_id, lookup_ok) ==
    lookup_ok /\ \E e \in st : e.id = doc_id

\* VectorStore.document_exists: False when the lookup raises
DocumentExists(st, doc_id, lookup_ok) ==
    lookup_ok /\ \E e \in st : e.id = ChromaId(doc_id)

\* (a delete that removes the first chunk of the document only)
DeleteAllDocumentChunks_FirstChunkOnly(st, doc_id, store_ok) ==
    IF store_ok
    THEN {e \in st : e.id # ChromaId(ChunkDocId(doc_id, 0))}
    ELSE st

\* VectorStore.delete_all_document_chunks: nothing is deleted when the
\* collection raises
DeleteAllDocumentChunks(st, doc_id, store_ok) ==
    IF store_ok
    THEN {e \in st : e.metadata.doc_id_original # ToString(doc_id)}
    ELSE st

\* the store holds chunks 0..n-1 of document d
HoldsChunks(st, d, n) ==
    \A i \in 0..(n - 1) : \E e \in st : e.id = ChromaId(ChunkDocId(d, i))

\* what can happen to one chunk in the loop of index_document
ChunkOutcomes == {"ok", "emb_empty", "emb_raise", "add_fail"}

-----------------------------------------------------------------------------
(* index_document *)

\* (a loop that gives up at the first chunk without an embedding)
RECURSIVE IndexChunks_StopOnFailure(_, _, _, _, _, _)
IndexChunks_StopOnFailure(acc, doc_id, chunks, chunk_idx, outcome, fetched) ==
    IF chunk_idx >= Len(chunks)
    THEN [store |-> acc.store, ret |-> acc.all_success, fetched |-> fetched,
          chunks |-> Len(chunks), embeds |-> acc.embeds,
          empties |-> acc.empties, adds |-> acc.adds, stored |-> acc.stored,
          raised |-> FALSE]
    ELSE
    LET chunk_text == chunks[chunk_idx + 1]
        chunk_metadata == [chunk_number    |-> ToString(chunk_idx),
                           total_chunks    |-> ToString(Len(chunks)),
                           doc_id_original |-> ToString(doc_id)]
        what == outcome[chunk_idx]
    IN  IF what = "emb_raise"
        THEN [store |-> acc.store, ret |-> FALSE, fetched |-> fetched,
              chunks |-> Len(chunks), embeds |-> acc.embeds + 1,
              empties |-> acc.empties, adds |-> acc.adds,
              stored |-> acc.stored, raised |-> TRUE]
        ELSE IF what = "emb_empty"
        THEN [store |-> acc.store, ret |-> FALSE, fetched |-> fetched,
              chunks |-> Len(chunks), embeds |-> acc.embeds + 1,
              empties |-> acc.empties + 1, adds |-> acc.adds,
              stored |-> acc.stored, raised |-> FALSE]
        ELSE
        LET added == AddDocument(acc.store, ChunkDocId(doc_id, chunk_idx),
                                 Slice(chunk_text, 0, PreviewLen),
                                 Embedding(chunk_text), chunk_metadata,
                                 what # "add_fail")
        IN  IndexChunks_StopOnFailure(
                [store       |-> added.store,
                 all_success |-> acc.all_success /\ added.ok,
                 embeds      |-> acc.embeds + 1,
                 empties     |-> acc.empties,
                 adds        |-> acc.adds + 1,
                 stored      |-> IF added.ok THEN acc.stored + 1 ELSE acc.stored],
                doc_id, chunks, chunk_idx + 1, outcome, fetched)

\* the loop 'for chunk_idx, chunk_text in enumerate(chunks)' from chunk_idx on
RECURSIVE IndexChunks(_, _, _, _, _, _)
IndexChunks(acc, doc_id, chunks, chunk_idx, outcome, fetched) ==
    IF chunk_idx >= Len(chunks)
    THEN [store |-> acc.store, ret |-> acc.all_success, fetched |-> fetched,
          chunks |-> Len(chunks), embeds |-> acc.embeds,
          empties |-> acc.empties, adds |-> acc.adds, stored |-> acc.stored,
          raised |-> FALSE]
    ELSE
    LET chunk_text == chunks[chunk_idx + 1]
        chunk_metadata == [chunk_number    |-> ToString(chunk_idx),
                           total_chunks    |-> ToString(Len(chunks)),
                           doc_id_original |-> ToString(doc_id)]
        what == outcome[chunk_idx]
        embedding == GenerateEmbedding(chunk_text, what)
    IN  IF what = "emb_raise"
        THEN \* an exception leaves the loop: 'except Exception: return False'
             [store |-> acc.store, ret |-> FALSE, fetched |-> fetched,
              chunks |-> Len(chunks), embeds |-> acc.embeds + 1,
              empties |-> acc.empties, adds |-> acc.adds,
              stored |-> acc.stored, raised |-> TRUE]
        ELSE IF embedding = <<>>
        THEN \* 'if not embedding: all_success = False; continue'
             IndexChunks([acc EXCEPT !.all_success = FALSE,
                                     !.embeds = acc.embeds + 1,
                                     !.empties = acc.empties + 1],
                         doc_id, chunks, chunk_idx + 1, outcome, fetched)
        ELSE
        LET added == AddDocument(acc.store, ChunkDocId(doc_id, chunk_idx),
                                 Slice(chunk_text, 0, PreviewLen),
                                 embedding, chunk_metadata,
                                 what # "add_fail")
        IN  IndexChunks([store       |-> added.store,
                         all_success |-> acc.all_success /\ added.ok,
                         embeds      |-> acc.embeds + 1,
                         empties     |-> acc.empties,
                         adds        |-> acc.adds + 1,
                         stored      |-> IF added.ok THEN acc.stored + 1
                                         ELSE acc.stored],
                        doc_id, chunks, chunk_idx + 1, outcome, fetched)

\* index_document returns before its loop: no chunk was made
NoWork(st, ret, fetched) ==
    [store |-> st, ret |-> ret, fetched |-> fetched, chunks |-> 0, embeds |-> 0,
     empties |-> 0, adds |-> 0, stored |-> 0, raised |-> FALSE]

\* index_document(doc_id, force_reindex) on store st; v is the text the
\* source holds for doc_id, lookup_ok and env what the collaborators do
IndexDocumentRun(st, doc_id, force_reindex, v, lookup_ok, env) ==
    IF ~force_reindex /\ DocumentExists(st, ChunkDocId(doc_id, 0), lookup_ok)
    THEN NoWork(st, TRUE, FALSE)
    ELSE IF env.fetch = "fail"
    THEN NoWork(st, FALSE, TRUE)
    ELSE IF SourceText(v, env.fetch) = <<>>
    THEN NoWork(st, FALSE, TRUE)
    ELSE IndexChunks([store |-> st, all_success |-> TRUE, embeds |-> 0,
                      empties |-> 0, adds |-> 0, stored |-> 0],
                     doc_id, SampleChunks[v], 0, env.outcome, TRUE)

\* what the document source, the embedding provider and the store can do
\* during one index_document of text v: the fetch, and per chunk its outcome
\* (an exception ends the loop: what the chunks after it would have met is
\* left at "ok")
EnvsFor(v) ==
    {[fetch |-> f, outcome |-> <<>>] : f \in FetchOutcomes \ {"ok"}}
    \cup {[fetch |-> "ok", outcome |-> o] :
             o \in {x \in [0..(Len(SampleChunks[v]) - 1) -> ChunkOutcomes] :
                      \A i, j \in DOMAIN x :
                          (i < j /\ x[i] = "emb_raise") => x[j] = "ok"}}

\* a failing lookup of an id the store does not hold answers False like a
\* working one, and a failing delete of a document without entries deletes
\* nothing like a working one: the store's failure is drawn where it shows
LookupChoices(st, doc_id, force_reindex) ==
    IF ~force_reindex /\ DocumentExists(st, doc_id, TRUE) THEN BOOLEAN ELSE {TRUE}

DeleteChoices(st, doc_id) ==
    IF DeleteAllDocumentChunks(st, doc_id, TRUE) # st THEN BOOLEAN ELSE {TRUE}

CallRecord(op, doc_id, force, r, lookup_ok, delete_ok) ==
    [op |-> op, id |-> doc_id, force |-> force, ret |-> r.ret,
     fetched |-> r.fetched, chunks |-> r.chunks, embeds |-> r.embeds,
     empties |-> r.empties, adds |-> r.adds, stored |-> r.stored,
     raised |-> r.raised,
     lookup_failed |-> ~lookup_ok, delete_failed |-> ~delete_ok,
     deleted |-> 0, complete |-> FALSE]

IndexInit ==
    /\ store = {}
    /\ version \in [DocIds -> Versions]
    /\ ix_last = NoCall
    /\ ix_again = FALSE
    /\ ix_prev_ret = FALSE
    /\ ix_prev_had0 = FALSE
    /\ ia_pc = "idle"
    /\ ia_docs = <<>>
    /\ ia_pos = 0
    /\ ia_stats = NoStats
    /\ ChunkIdle
    /\ QAIdle
    /\ ExtIdle

\* the document's text changes at the document source (what the last call
\* did was about the text as it was: the record of it is dropped)
DocumentEdited(d) ==
    /\ ia_pc = "idle"
    /\ \E v \in Versions : v # version[d] /\ version' = [version EXCEPT ![d] = v]
    /\ ix_last' = NoCall
    /\ ix_again' = FALSE
    /\ ix_prev_ret' = FALSE
    /\ ix_prev_had0' = FALSE
    /\ UNCHANGED <<store, ia_pc, ia_docs, ia_pos, ia_stats>>
    /\ UNCHANGED <<chunkVars, qaVars, extVars>>

\* a call index_document(d, force_reindex)
IndexDocument(d, force_reindex) ==
    /\ ia_pc = "idle"
    /\ \E lookup_ok \in LookupChoices(store, ChunkDocId(d, 0), force_reindex),
          env \in EnvsFor(version[d]) :
         LET r == IndexDocumentRun(store, d, force_reindex, version[d],
                                   lookup_ok, env)
         IN  /\ store' = r.store
             /\ ix_last' = CallRecord("index", d, force_reindex, r, lookup_ok, TRUE)
    /\ ix_again' = (ix_last.op = "index" /\ ~ix_last.force /\ ix_last.id = d
                    /\ ~force_reindex)
    /\ ix_prev_ret' = (ix_again' /\ ix_last.ret)
    /\ ix_prev_had0' = (ix_again' /\ DocumentExists(store, ChunkDocId(d, 0), TRUE))
    /\ UNCHANGED <<version, ia_pc, ia_docs, ia_pos, ia_stats>>
    /\ UNCHANGED <<chunkVars, qaVars, extVars>>

\* a call reindex_document(d): delete_all_document_chunks, whose result is
\* not looked at, then index_document(d, force_reindex=True)
ReindexDocument(d) ==
    /\ ia_pc = "idle"
    /\ \E delete_ok \in DeleteChoices(store, d), env \in EnvsFor(version[d]) :
         LET cleared == DeleteAllDocumentChunks(store, d, delete_ok)
             r == IndexDocumentRun(cleared, d, TRUE, version[d],
                                   TRUE, env)
         IN  /\ store' = r.store
             /\ ix_last' = [CallRecord("reindex", d, TRUE, r, TRUE, delete_ok)
                             EXCEPT !.deleted = Cardinality(store \ cleared)]
    /\ ix_again' = FALSE
    /\ ix_prev_ret' = FALSE
    /\ ix_prev_had0' = FALSE
    /\ UNCHANGED <<version, ia_pc, ia_docs, ia_pos, ia_stats>>
    /\ UNCHANGED <<chunkVars, qaVars, extVars>>

-----------------------------------------------------------------------------
(* index_all_documents, one document of its loop per step *)

\* get_all_documents: every document in order, or the pages read before a
\* request failed
Enumerations == {SubSeq([i \in DOMAIN version |-> i], 1, k) :
                    k \in 0..Len(version)}

\* (a count that leaves out the documents whose indexing failed)
CountDocument_FailuresUncounted(stats, success) ==
    IF success THEN [stats EXCEPT !.indexed = @ + 1] ELSE stats

\* stats['indexed'] += 1 or stats['failed'] += 1
CountDocument(stats, success) ==
    IF success THEN [stats EXCEPT !.indexed = @ + 1]
    ELSE [stats EXCEPT !.failed = @ + 1]

\* every document of the source has all chunks of its text in the store
Indexed(st) ==
    \A d \in DOMAIN version :
        HoldsChunks(st, d, Len(SampleChunks[version[d]]))

IndexAllStart ==
    /\ ia_pc = "idle"
    /\ ia_docs' \in Enumerations
    /\ ia_pc' = "loop"
    /\ ia_pos' = 1
    /\ ia_stats' = NoStats
    /\ ix_last' = [NoCall EXCEPT !.op = "index_all",
                               !.complete = Indexed(store)]
    /\ ix_again' = FALSE
    /\ ix_prev_ret' = FALSE
    /\ ix_prev_had0' = FALSE
    /\ UNCHANGED <<store, version>>
    /\ UNCHANGED <<chunkVars, qaVars, extVars>>

IndexAllStep ==
    /\ ia_pc = "loop"
    /\ ia_pos <= Len(ia_docs)
    /\ LET doc_id == ia_docs[ia_pos]
       IN  \E exists_ok \in LookupChoices(store, IntDocId(doc_id), FALSE),
              lookup_ok \in LookupChoices(store, ChunkDocId(doc_id, 0), FALSE),
              env \in EnvsFor(version[doc_id]) :
             IF DocumentExists(store, IntDocId(doc_id), exists_ok)
             THEN /\ ia_stats' = [ia_stats EXCEPT !.skipped = @ + 1]
                  /\ store' = store
             ELSE LET r == IndexDocumentRun(store, doc_id, FALSE, version[doc_id],
                                            lookup_ok, env)
                  IN  /\ store' = r.store
                      /\ ia_stats' = CountDocument(ia_stats, r.ret)
    /\ ia_pos' = ia_pos + 1
    /\ UNCHANGED <<version, ix_last, ix_again, ix_prev_ret, ix_prev_had0,
                   ia_pc, ia_docs>>
    /\ UNCHANGED <<chunkVars, qaVars, extVars>>

IndexAllReturn ==
    /\ ia_pc = "loop"
    /\ ia_pos > Len(ia_docs)
    /\ ia_pc' = "idle"
    /\ UNCHANGED <<store, version, ix_last, ix_again, ix_prev_ret, ix_prev_had0,
                   ia_docs, ia_pos, ia_stats>>
    /\ UNCHANGED <<chunkVars, qaVars, extVars>>

IndexNext ==
    \/ \E d \in DocIds : DocumentEdited(d)
    \/ \E d \in DocIds, force_reindex \in BOOLEAN : IndexDocument(d, force_reindex)
    \/ \E d \in DocIds : ReindexDocument(d)
    \/ IndexAllStart
    \/ IndexAllStep
    \/ IndexAllReturn

SpecIndex == IndexInit /\ [][IndexNext]_vars

-----------------------------------------------------------------------------
(* index_all_documents on its own, over a source of several documents *)

\* document ids 1..MaxBatchDocs at the document source of the batch runs
MaxBatchDocs == 2

IndexAllInit ==
    /\ store = {}
    /\ version \in [1..MaxBatchDocs -> Versions]
    /\ ix_last = NoCall
    /\ ix_again = FALSE
    /\ ix_prev_ret = FALSE
    /\ ix_prev_had0 = FALSE
    /\ ia_pc = "idle"
    /\ ia_docs = <<>>
    /\ ia_pos = 0
    /\ ia_stats = NoStats
    /\ ChunkIdle
    /\ QAIdle
    /\ ExtIdle

IndexAllNext ==
    \/ IndexAllStart
    \/ IndexAllStep
    \/ IndexAllReturn

SpecIndexAll == IndexAllInit /\ [][IndexAllNext]_vars

-----------------------------------------------------------------------------
(* Claims about the indexer *)

\* the entries of the store that belong to document d
ChunksOf(st, d) == {e \in st : e.metadata.doc_id_original = ToString(d)}

\* the last call was index_document(id, force_reindex=False) and did nothing
SkippedCall ==
    /\ ix_last.op = "index" /\ ~ix_last.force
    /\ ix_last.ret
    /\ ~ix_last.fetched /\ ix_last.embeds = 0 /\ ix_last.adds = 0

C3_ReindexExactCount ==
    (ix_last.op = "reindex" /\ ix_last.ret) =>
        Cardinality(ChunksOf(store, ix_last.id))
            = Len(ChunkText(SampleTexts[version[ix_last.id]],
                            IndexChunkSize, IndexOverlap))

\* C4: in every reachable state all chunks stored for the same source
\* document carry the same total_chunks value.
C4_TotalChunksConsistent ==
    \A e1, e2 \in store :
        e1.metadata.doc_id_original = e2.metadata.doc_id_original
            => e1.metadata.total_chunks = e2.metadata.total_chunks

-----------------------------------------------------------------------------
(* Question answering: QASystem (src/qa_system.py), ask_question           *)
(* (src/web_app.py).  A search result is the pair of its source document   *)
(* id and its distance; distances are counted in hundredths.                *)

\* results the vector store holds for the queries of one call
MaxHits == 3
\* source documents among the results
MaxQADoc == 2
\* n_results and n_context_docs range over 0..MaxN
MaxN == 3
\* non-blank lines in the response to the variants prompt
MaxLines == 3

\* n_variants=2 in search_documents_multi
NVariants == 2
\* max(n_results // len(queries), 3)
MinPerQuery == 3

\* Python's None
None == 0 - 1

DistValues == {0, 40}

QADocIds == 1..MaxQADoc

\* the results VectorStore.search formats: 'distance' is None when the
\* store's response carries no distances
Results == [doc_id : QADocIds, distance : DistValues \cup {None}]

\* one response of the store: ranked by ascending distance, or without
\* distances altogether
ValidRanking(r) ==
    \/ \A i \in 1..Len(r) : r[i].distance = None
    \/ /\ \A i \in 1..Len(r) : r[i].distance # None
       /\ \A i \in 1..Len(r) - 1 : r[i].distance <= r[i + 1].distance

\* documents are numbered in the order in which they first appear (the code
\* only compares document ids for equality)
NumberedInOrder(f) ==
    \A i \in 1..Len(f) :
        \/ f[i].doc_id = 1
        \/ \E j \in 1..(i - 1) : f[j].doc_id >= f[i].doc_id - 1

\* what the store holds for the original query (1) and the two variants
\* (2, 3): at most MaxHits results in all
Rankings ==
    LET flat == {f \in UNION {[1..m -> Results] : m \in 0..MaxHits} :
                    NumberedInOrder(f)}
        cuts == {c \in flat \X (0..MaxHits) \X (0..MaxHits) :
                    c[2] <= c[3] /\ c[3] <= Len(c[1])}
        split(c) == <<SubSeq(c[1], 1, c[2]),
                      SubSeq(c[1], c[2] + 1, c[3]),
                      SubSeq(c[1], c[3] + 1, Len(c[1]))>>
    IN  {r \in {split(c) : c \in cuts} : \A q \in 1..3 : ValidRanking(r[q])}

\* a generated text: its non-blank lines, its length, whether it holds one
\* of the negative phrases of _estimate_confidence
EmptyText == [lines |-> 0, len |-> 0, negative |-> FALSE]

\* what the generation provider does with the variants prompt
VariantOutcomes ==
    {[kind |-> "request_error", text |-> EmptyText],
     [kind |-> "blank", text |-> EmptyText]}
    \cup {[kind |-> "text", text |-> [lines |-> k, len |-> 20, negative |-> FALSE]] :
            k \in 1..MaxLines}

\* what the generation provider does with the RAG prompt
AnswerOutcomes ==
    {[kind |-> "request_error", text |-> EmptyText],
     [kind |-> "blank", text |-> EmptyText],
     [kind |-> "text", text |-> [lines |-> 1, len |-> 20, negative |-> FALSE]],
     [kind |-> "text", text |-> [lines |-> 1, len |-> 120, negative |-> FALSE]],
     [kind |-> "text", text |-> [lines |-> 1, len |-> 120, negative |-> TRUE]]}

\* OllamaClassifier.generate: the stripped response, "" on a request error
Generate(g) == IF g.kind = "text" THEN g.text ELSE EmptyText

\* s[:n] for n >= 0
Take(s, n) == SubSeq(s, 1, Min(n, Len(s)))

\* (a generator that returns no query at all when the provider fails)
GenerateMultiQueries_NoFallback(g, n_variants) ==
    LET response == Generate(g)
    IN  IF response.len > 0
        THEN <<1>> \o [i \in 1..Min(response.lines, n_variants) |-> i + 1]
        ELSE <<>>

\* QASystem._generate_multi_queries: the queries by number, 1 the original
GenerateMultiQueries(g, n_variants) ==
    LET response == Generate(g)
    IN  IF response.len > 0
        THEN <<1>> \o [i \in 1..Min(response.lines, n_variants) |-> i + 1]
        ELSE <<1>>

\* QASystem.search_documents for query q: the first n_results of the store's
\* ranking (the store refuses n_results <= 0, which search turns into [])
SearchDocuments(rank, q, n_results) ==
    IF n_results <= 0 THEN <<>> ELSE Take(rank[q], n_results)

\* the loop over the queries: all_results.extend(results)
RECURSIVE SearchAll(_, _, _, _)
SearchAll(rank, queries, i, results_per_query) ==
    IF i > Len(queries) THEN <<>>
    ELSE SearchDocuments(rank, queries[i], results_per_query)
            \o SearchAll(rank, queries, i + 1, results_per_query)

\* (a deduplication that keeps the last entry of a document)
RECURSIVE DedupLoop_KeepLast(_, _, _, _)
DedupLoop_KeepLast(all_results, i, seen_docs, dedup_results) ==
    IF i > Len(all_results) THEN dedup_results
    ELSE IF \E j \in (i + 1)..Len(all_results) :
                all_results[j].doc_id = all_results[i].doc_id
         THEN DedupLoop_KeepLast(all_results, i + 1, seen_docs, dedup_results)
         ELSE DedupLoop_KeepLast(all_results, i + 1, seen_docs,
                                 Append(dedup_results, all_results[i]))

\* the deduplication loop over all_results
RECURSIVE DedupLoop(_, _, _, _)
DedupLoop(all_results, i, seen_docs, dedup_results) ==
    IF i > Len(all_results) THEN dedup_results
    ELSE IF all_results[i].doc_id \notin seen_docs
         THEN DedupLoop(all_results, i + 1,
                        seen_docs \cup {all_results[i].doc_id},
                        Append(dedup_results, all_results[i]))
         ELSE DedupLoop(all_results, i + 1, seen_docs, dedup_results)

\* list.sort compares keys as soon as there are two elements: a None key
\* raises TypeError ('distance' is always present, so the default 999 of
\* x.get('distance', 999) is never used)
SortRaises(rs) == Len(rs) >= 2 /\ \E i \in 1..Len(rs) : rs[i].distance = None

\* insertion of x behind every element whose key is not greater
InsertByDistance(sorted, x) ==
    LET before == {i \in 1..Len(sorted) : sorted[i].distance <= x.distance}
        k == IF before = {} THEN 0 ELSE CHOOSE i \in before : \A j \in before : j <= i
    IN  SubSeq(sorted, 1, k) \o <<x>> \o SubSeq(sorted, k + 1, Len(sorted))

RECURSIVE SortLoop(_, _, _)
SortLoop(rs, i, sorted) ==
    IF i > Len(rs) THEN sorted
    ELSE SortLoop(rs, i + 1, InsertByDistance(sorted, rs[i]))

\* dedup_results.sort(key=distance): stable, ascending
SortByDistance(rs) == SortLoop(rs, 1, <<>>)

\* QASystem.search_documents_multi.  fallback_ok: the search of the except
\* branch gets its embedding.
SearchDocumentsMulti(n_results, use_multi_query, g, rank, fallback_ok) ==
    LET queries == IF use_multi_query THEN GenerateMultiQueries(g, NVariants)
                   ELSE <<1>>
        fallback == IF fallback_ok THEN SearchDocuments(rank, 1, n_results)
                    ELSE <<>>
    IN  IF Len(queries) = 0
        THEN \* ZeroDivisionError
             [rank |-> rank, queries |-> queries, all_results |-> <<>>,
              dedup_results |-> <<>>, path |-> "fallback",
              fallback_ok |-> fallback_ok, results |-> fallback]
        ELSE
        LET results_per_query == Max(n_results \div Len(queries), MinPerQuery)
            all_results == SearchAll(rank, queries, 1, results_per_query)
            dedup_results == DedupLoop(all_results, 1, {}, <<>>)
        IN  IF SortRaises(dedup_results)
            THEN [rank |-> rank, queries |-> queries, all_results |-> all_results,
                  dedup_results |-> dedup_results, path |-> "fallback",
                  fallback_ok |-> fallback_ok, results |-> fallback]
            ELSE [rank |-> rank, queries |-> queries, all_results |-> all_results,
                  dedup_results |-> dedup_results, path |-> "main",
                  fallback_ok |-> TRUE,
                  results |-> Take(SortByDistance(dedup_results), n_results)]

RECURSIVE SumDistances(_, _)
SumDistances(docs, i) ==
    IF i > Len(docs) THEN 0 ELSE docs[i].distance + SumDistances(docs, i + 1)

\* (a scoring that gives two results the points of one)
EstimateConfidence_TwoAsOne(relevant_docs, answer) ==
    IF Len(relevant_docs) = 0 THEN "low"
    ELSE
    LET top == Take(relevant_docs, 3)
    IN  IF \E i \in 1..Len(top) : top[i].distance = None THEN "TypeError"
        ELSE
        LET total == SumDistances(top, 1)
            k == Len(top)
            average == IF total < 30 * k THEN 40
                       ELSE IF total < 50 * k THEN 30
                       ELSE IF total < 70 * k THEN 15 ELSE 5
            best_distance == relevant_docs[1].distance
            best == IF best_distance < 20 THEN 30
                    ELSE IF best_distance < 40 THEN 20
                    ELSE IF best_distance < 60 THEN 10 ELSE 3
            num_docs == Len(relevant_docs)
            number == IF num_docs >= 3 THEN 15 ELSE 5
            quality == IF answer.negative THEN 0
                       ELSE IF answer.len > 100 THEN 15
                       ELSE IF answer.len > 50 THEN 10 ELSE 5
            score == average + best + number + quality
        IN  IF score >= 70 THEN "high"
            ELSE IF score >= 45 THEN "medium" ELSE "low"

\* QASystem._estimate_confidence; "TypeError" when a distance among the
\* first three is None (doc.get('distance', 1.0) yields the None)
EstimateConfidence(relevant_docs, answer) ==
    IF Len(relevant_docs) = 0 THEN "low"
    ELSE
    LET top == Take(relevant_docs, 3)
    IN  IF \E i \in 1..Len(top) : top[i].distance = None THEN "TypeError"
        ELSE
        LET total == SumDistances(top, 1)
            k == Len(top)
            average == IF total < 30 * k THEN 40
                       ELSE IF total < 50 * k THEN 30
                       ELSE IF total < 70 * k THEN 15 ELSE 5
            best_distance == relevant_docs[1].distance
            best == IF best_distance < 20 THEN 30
                    ELSE IF best_distance < 40 THEN 20
                    ELSE IF best_distance < 60 THEN 10 ELSE 3
            num_docs == Len(relevant_docs)
            number == IF num_docs >= 3 THEN 15 ELSE IF num_docs >= 2 THEN 10 ELSE 5
            quality == IF answer.negative THEN 0
                       ELSE IF answer.len > 100 THEN 15
                       ELSE IF answer.len > 50 THEN 10 ELSE 5
            score == average + best + number + quality
        IN  IF score >= 70 THEN "high"
            ELSE IF score >= 45 THEN "medium" ELSE "low"

\* one entry of sources; relevance_score = 1 - distance / 2, in two-hundredths
SourceRef(doc) ==
    [doc_id |-> doc.doc_id,
     relevance_score |-> IF doc.distance = None \/ doc.distance = 0 THEN None
                         ELSE 200 - doc.distance]

\* the sources collected by the loop over relevant_docs
Sources(relevant_docs) ==
    [i \in 1..Len(relevant_docs) |-> SourceRef(relevant_docs[i])]

\* (a 'no relevant documents' answer that claims medium confidence)
NoDocumentsAnswer_Medium(message) ==
    [kind |-> "answer", answer |-> message, sources |-> <<>>,
     confidence |-> "medium", status |-> 200]

\* "Ich konnte keine relevanten Dokumente finden, ..."
NoDocumentsAnswer(message) ==
    [kind |-> "answer", answer |-> message, sources |-> <<>>,
     confidence |-> "low", status |-> 200]

\* (a fallback answer that leaves the sources out)
NoAnswer_NoSources(sources) ==
    [kind |-> "answer", answer |-> "no_answer", sources |-> <<>>,
     confidence |-> "low", status |-> 200]

\* "Entschuldigung, ich konnte keine Antwort generieren."
NoAnswer(sources) ==
    [kind |-> "answer", answer |-> "no_answer", sources |-> sources,
     confidence |-> "low", status |-> 200]

\* the answer of the except branch of answer_question
ErrorAnswer ==
    [kind |-> "answer", answer |-> "error", sources |-> <<>>,
     confidence |-> "low", status |-> 200]

GeneratedAnswer(sources, confidence) ==
    [kind |-> "answer", answer |-> "generated", sources |-> sources,
     confidence |-> confidence, status |-> 200]

\* jsonify({'error': ...}), status
ErrorResponse(status) ==
    [kind |-> "error", answer |-> "none", sources |-> <<>>,
     confidence |-> "none", status |-> status]

\* answer_question from the context loop on
ComposeAnswer(relevant_docs, include_sources, g) ==
    LET sources == IF include_sources THEN Sources(relevant_docs) ELSE <<>>
        answer == Generate(g)
    IN  IF answer.len = 0 THEN NoAnswer(sources)
        ELSE LET confidence == EstimateConfidence(relevant_docs, answer)
             IN  IF confidence = "TypeError" THEN ErrorAnswer
                 ELSE GeneratedAnswer(sources, confidence)

\* ask_question from the context loop on
ComposeAsk(relevant_docs, g) ==
    LET sources == Sources(relevant_docs)
        answer == Generate(g)
    IN  IF answer.len = 0 THEN NoAnswer(sources)
        ELSE LET confidence == EstimateConfidence(relevant_docs, answer)
             IN  IF confidence = "TypeError" THEN ErrorResponse(500)
                 ELSE GeneratedAnswer(sources, confidence)

\* the retrieval of answer_question and ask_question: search_documents_multi
\* for twice the documents, cut to n_context_docs, when USE_MULTI_QUERY is on
RelevantDocs(n_context_docs, use_multi, g, rank, fallback_ok) ==
    IF use_multi
    THEN Take(SearchDocumentsMulti(n_context_docs * 2, TRUE, g, rank,
                                   fallback_ok).results,
              n_context_docs)
    ELSE SearchDocuments(rank, 1, n_context_docs)

\* the year and tags filters of ask_question: kept, the documents that pass
PostFilter(relevant_docs, kept) ==
    SelectSeq(relevant_docs, LAMBDA r : r.doc_id \in kept)

\* the except branch of search_documents_multi searches again, and that
\* search may fail: drawn only where the except branch is taken
FallbackChoices(n_results, use_multi_query, g, rank) ==
    IF SearchDocumentsMulti(n_results, use_multi_query, g, rank, TRUE).path = "fallback"
    THEN BOOLEAN ELSE {TRUE}

\* the same for the retrieval of answer_question and ask_question
RetrievalChoices(n_context_docs, use_multi, g, rank) ==
    IF use_multi THEN FallbackChoices(n_context_docs * 2, TRUE, g, rank)
    ELSE {TRUE}

\* the documents the year and tags filters can tell apart
DocsOf(relevant_docs) == {relevant_docs[i].doc_id : i \in 1..Len(relevant_docs)}

\* the outcomes of the variants prompt that can be told apart
VariantChoices(use_multi) ==
    IF use_multi THEN VariantOutcomes
    ELSE {[kind |-> "text", text |-> [lines |-> 1, len |-> 20, negative |-> FALSE]]}

QAInit ==
    /\ qa_pc = "ready"
    /\ qa_call = NoQACall
    /\ qa_search = NoSearch
    /\ qa_docs = <<>>
    /\ qa_resp = NoResponse
    /\ ChunkIdle
    /\ IndexIdle
    /\ ExtIdle

\* a call of search_documents_multi
SearchMulti(n_results, use_multi) ==
    /\ qa_pc = "ready"
    /\ \E rank \in Rankings, g \in VariantChoices(use_multi) :
       \E fallback_ok \in FallbackChoices(n_results, use_multi, g, rank) :
          /\ qa_search' = SearchDocumentsMulti(n_results, use_multi, g, rank,
                                               fallback_ok)
          /\ qa_call' = [NoQACall EXCEPT !.op = "search", !.n = n_results,
                                         !.multi = use_multi,
                                         !.variants = IF use_multi THEN g.kind
                                                      ELSE "none"]
    /\ qa_pc' = "done"
    /\ UNCHANGED <<qa_docs, qa_resp>>
    /\ UNCHANGED <<chunkVars, indexVars, extVars>>

\* answer_question up to 'if not relevant_docs'
AnswerQuestionRetrieve(n_context_docs) ==
    /\ qa_pc = "ready"
    /\ \E use_multi \in BOOLEAN :
       \E rank \in Rankings, g \in VariantChoices(use_multi) :
       \E fallback_ok \in RetrievalChoices(n_context_docs, use_multi, g, rank) :
          LET relevant_docs == RelevantDocs(n_context_docs, use_multi, g, rank,
                                            fallback_ok)
          IN  \E include_sources \in BOOLEAN :
              /\ qa_docs' = relevant_docs
              /\ qa_call' = [NoQACall EXCEPT !.op = "answer", !.n = n_context_docs,
                                             !.multi = use_multi,
                                             !.include_sources = include_sources]
              /\ IF Len(relevant_docs) = 0
                 THEN /\ qa_resp' = NoDocumentsAnswer("no_documents")
                      /\ qa_pc' = "done"
                 ELSE /\ qa_resp' = qa_resp
                      /\ qa_pc' = "compose"
    /\ UNCHANGED qa_search
    /\ UNCHANGED <<chunkVars, indexVars, extVars>>

\* answer_question from the context loop to its return
AnswerQuestionCompose ==
    /\ qa_pc = "compose"
    /\ qa_call.op = "answer"
    /\ \E g \in AnswerOutcomes :
          /\ qa_resp' = ComposeAnswer(qa_docs, qa_call.include_sources, g)
          /\ qa_call' = [qa_call EXCEPT !.generation = g.kind]
    /\ qa_pc' = "done"
    /\ UNCHANGED <<qa_search, qa_docs>>
    /\ UNCHANGED <<chunkVars, indexVars, extVars>>

\* ask_question returning before any retrieval: no question in the request
\* (400), or get_qa_services raising as the vector store cannot be opened (500)
AskQuestionReject(question_empty) ==
    /\ qa_pc = "ready"
    /\ qa_call' = [NoQACall EXCEPT !.op = "ask",
                                   !.question_empty = question_empty,
                                   !.services_ok = question_empty]
    /\ qa_resp' = ErrorResponse(IF question_empty THEN 400 ELSE 500)
    /\ qa_pc' = "done"
    /\ UNCHANGED <<qa_search, qa_docs>>
    /\ UNCHANGED <<chunkVars, indexVars, extVars>>

\* ask_question up to 'if not relevant_docs'
AskQuestionRetrieve(n_context_docs) ==
    /\ qa_pc = "ready"
    /\ \E use_multi \in BOOLEAN :
       \E rank \in Rankings, g \in VariantChoices(use_multi) :
       \E fallback_ok \in RetrievalChoices(n_context_docs, use_multi, g, rank) :
          LET retrieved == RelevantDocs(n_context_docs, use_multi, g, rank,
                                        fallback_ok)
          IN  \E kept \in SUBSET DocsOf(retrieved) :
              LET relevant_docs == PostFilter(retrieved, kept)
              IN
              /\ qa_docs' = relevant_docs
              /\ qa_call' = [NoQACall EXCEPT !.op = "ask", !.n = n_context_docs,
                                             !.multi = use_multi,
                                             !.include_sources = TRUE]
              /\ IF Len(relevant_docs) = 0
                 THEN /\ qa_resp' = NoDocumentsAnswer("no_documents_with_filters")
                      /\ qa_pc' = "done"
                 ELSE /\ qa_resp' = qa_resp
                      /\ qa_pc' = "compose"
    /\ UNCHANGED qa_search
    /\ UNCHANGED <<chunkVars, indexVars, extVars>>

\* ask_question from the context loop to its return
AskQuestionCompose ==
    /\ qa_pc = "compose"
    /\ qa_call.op = "ask"
    /\ \E g \in AnswerOutcomes :
          /\ qa_resp' = ComposeAsk(qa_docs, g)
          /\ qa_call' = [qa_call EXCEPT !.generation = g.kind]
    /\ qa_pc' = "done"
    /\ UNCHANGED <<qa_search, qa_docs>>
    /\ UNCHANGED <<chunkVars, indexVars, extVars>>

QANext ==
    \/ \E n_results \in 0..MaxN, use_multi \in BOOLEAN :
          SearchMulti(n_results, use_multi)
    \/ \E n_context_docs \in 0..MaxN : AnswerQuestionRetrieve(n_context_docs)
    \/ AnswerQuestionCompose
    \/ \E question_empty \in BOOLEAN : AskQuestionReject(question_empty)
    \/ \E n_context_docs \in 0..MaxN : AskQuestionRetrieve(n_context_docs)
    \/ AskQuestionCompose

SpecQA == QAInit /\ [][QANext]_vars

-----------------------------------------------------------------------------
(* Claims about question answering *)

\* search_documents_multi has returned
SearchDone == qa_pc = "done" /\ qa_call.op = "search"

\* answer_question or ask_question has returned
AnswerDone == qa_pc = "done" /\ qa_call.op \in {"answer", "ask"}

\* C5: search_documents_multi returns at most n_results results and no two
\* of them share a source document id, on every path through the function,
\* its error fallback included.
C5_AtMostNDistinctDocs ==
    SearchDone =>
        /\ Len(qa_search.results) <= qa_call.n
        /\ \A i, j \in 1..Len(qa_search.results) :
              i # j => qa_search.results[i].doc_id # qa_search.results[j].doc_id

\* ascending by distance, a missing distance behind every distance
DistanceOrdered(rs) ==
    \A i, j \in 1..Len(rs) :
        i < j =>
            /\ rs[i].distance = None => rs[j].distance = None
            /\ (rs[i].distance # None /\ rs[j].distance # None)
                  => rs[i].distance <= rs[j].distance

\* C6: the list returned by multi-query retrieval is in ascending order of
\* distance, and a deduplicated result whose distance is missing is in it
\* (n_results permitting, and no search of the call failing), behind every
\* result that has a distance.
C6_AscendingMissingLast ==
    (SearchDone /\ qa_search.fallback_ok) =>
        /\ DistanceOrdered(qa_search.results)
        /\ \A i \in 1..Len(qa_search.dedup_results) :
              (/\ qa_search.dedup_results[i].distance = None
               /\ Len(qa_search.dedup_results) <= qa_call.n)
              => \E j \in 1..Len(qa_search.results) :
                    qa_search.results[j] = qa_search.dedup_results[i]

\* position i holds the first entry of its document in all_results
FirstOf(all, i) == \A j \in 1..(i - 1) : all[j].doc_id # all[i].doc_id

\* C7: of several entries of the concatenated results with the same source
\* document id the deduplication keeps the one that comes first in
\* concatenation order (the original query's results first) and drops every
\* later one, a later one with a lower distance too.
C7_KeepsFirstOccurrence ==
    SearchDone =>
        LET all == qa_search.all_results
            dedup == qa_search.dedup_results
            firsts == {i \in 1..Len(all) : FirstOf(all, i)}
        IN  /\ Len(dedup) = Cardinality(firsts)
            /\ \A k \in 1..Len(dedup) :
                  \E i \in firsts : /\ dedup[k] = all[i]
                                    /\ Cardinality({j \in firsts : j < i}) = k - 1
            /\ qa_search.path = "main" =>
                  \A r \in 1..Len(qa_search.results) :
                      \E i \in firsts : qa_search.results[r] = all[i]

C7_Witness ==
    /\ SearchDone
    /\ qa_search.path = "main"
    /\ \E i, j \in 1..Len(qa_search.all_results) :
          /\ i < j
          /\ FirstOf(qa_search.all_results, i)
          /\ qa_search.all_results[j].doc_id = qa_search.all_results[i].doc_id
          /\ qa_search.all_results[j].distance # None
          /\ qa_search.all_results[j].distance < qa_search.all_results[i].distance
          /\ \E r \in 1..Len(qa_search.results) :
                qa_search.results[r] = qa_search.all_results[i]

\* the generation provider failed on the variants prompt
VariantsFailed ==
    qa_call.multi /\ qa_call.variants \in {"request_error", "blank"}

\* C8: when the generation provider fails (empty response or error) on the
\* variants prompt, search_documents_multi still runs the search for the
\* original query alone and returns its results.
C8_VariantFailureSearchesOriginal ==
    (SearchDone /\ VariantsFailed) =>
        /\ qa_search.queries = <<1>>
        /\ qa_search.all_results
              = Take(qa_search.rank[1], Max(qa_call.n, MinPerQuery))
        /\ \A r \in 1..Len(qa_search.results) :
              \E i \in 1..Len(qa_search.rank[1]) :
                  qa_search.results[r] = qa_search.rank[1][i]
        /\ (qa_search.path = "main" /\ qa_call.n > 0 /\ qa_search.rank[1] # <<>>)
              => qa_search.results # <<>>

C8_Witness ==
    /\ SearchDone
    /\ VariantsFailed
    /\ qa_search.rank[2] # <<>>
    /\ qa_search.results # <<>>

\* C9: question answering returns a structured answer (answer text, sources,
\* confidence low, medium or high) for every question and every combination
\* of provider failures; no failure reaches the caller as an error.
C9_AlwaysStructuredAnswer ==
    (AnswerDone /\ ~qa_call.question_empty) =>
        /\ qa_resp.kind = "answer"
        /\ qa_resp.confidence \in {"low", "medium", "high"}

\* the generation provider failed on the RAG prompt
GenerationFailed == qa_call.generation \in {"request_error", "blank"}

-----------------------------------------------------------------------------
(* _estimate_confidence on its own: every ranked result list and answer *)

\* most results in a list given to _estimate_confidence
MaxConfDocs == 3

\* distances in hundredths, on and between the thresholds of the scoring
ConfDistances == {10, 20, 30, 40, 50, 60, 70, 80}

\* relevant_docs: one document per entry, ranked by ascending distance, or
\* without distances altogether (VectorStore.search, 'distance': None)
ConfDocLists ==
    {r \in UNION {[1..k -> [doc_id : 1..MaxConfDocs,
                             distance : ConfDistances \cup {None}]] :
                     k \in 1..MaxConfDocs} :
        /\ \A i \in 1..Len(r) : r[i].doc_id = i
        /\ \/ \A i \in 1..Len(r) : r[i].distance = None
           \/ /\ \A i \in 1..Len(r) : r[i].distance # None
              /\ \A i \in 1..(Len(r) - 1) : r[i].distance <= r[i + 1].distance}

\* answer texts: short, middling and detailed, with and without one of the
\* negative phrases
ConfAnswers ==
    [lines : {1}, len : {20, 50, 51, 100, 101, 150}, negative : BOOLEAN]

EstimateInit ==
    /\ ec_call = NoEstimate
    /\ ConcIdle
    /\ ServicesIdle
    /\ nw_call = NoOperation
    /\ sd_call = NoSearchCall
    /\ ChunkIdle
    /\ IndexIdle
    /\ QAIdle

\* one call of _estimate_confidence
EstimateConfidenceCall ==
    /\ ec_call.ret = "none"
    /\ \E relevant_docs \in ConfDocLists, answer \in ConfAnswers :
          ec_call' = [docs |-> relevant_docs, answer |-> answer,
                      ret |-> EstimateConfidence(relevant_docs, answer)]
    /\ UNCHANGED <<chunkVars, indexVars, qaVars, concVars, svVars, nw_call, sd_call>>

EstimateNext == EstimateConfidenceCall

SpecEstimate == EstimateInit /\ [][EstimateNext]_vars

\* the results _estimate_confidence reads carry a distance
HasDistances(docs) == \A i \in 1..Min(3, Len(docs)) : docs[i].distance # None

-----------------------------------------------------------------------------
(* Claims about the indexing loop *)

\* the last call was an index_document that reached its loop, and no
\* exception left the loop
LoopRan ==
    /\ ix_last.op \in {"index", "reindex"}
    /\ ix_last.chunks > 0
    /\ ~ix_last.raised

Counted == ia_stats.indexed + ia_stats.skipped + ia_stats.failed

\* index_all_documents has returned
IndexAllDone == ia_pc = "idle" /\ ix_last.op = "index_all"

\* C14: index_all_documents goes through every enumerated document, also
\* after the indexing of one has failed, and counts each in exactly one of
\* indexed, skipped and failed: the three add up to the documents gone
\* through, and to the number enumerated when the call returns.
C14_EveryDocumentCounted ==
    /\ ia_pc = "loop" =>
          /\ ia_pos <= Len(ia_docs) + 1
          /\ Counted = ia_pos - 1
    /\ IndexAllDone =>
          /\ ia_pos = Len(ia_docs) + 1
          /\ Counted = Len(ia_docs)

\* the indexing of document 1 failed and document 2 was indexed after it
C14_Witness ==
    /\ IndexAllDone
    /\ Len(ia_docs) = 2
    /\ ia_stats.failed = 1 /\ ia_stats.indexed = 1
    /\ ChunksOf(store, 1) = {}
    /\ ChunksOf(store, 2) # {}


\* entry e holds chunk i of sample text v as index_document writes it: the
\* preview of the chunk with the provider's embedding of the whole chunk
HoldsChunk(e, v, i) ==
    /\ e.metadata.chunk_number = ToString(i - 1)
    /\ e.text = Slice(SampleChunks[v][i], 0, PreviewLen)
    /\ e.embedding = Embedding(SampleChunks[v][i])

\* C15: every chunk in the vector store was stored with the non-empty
\* embedding the provider returned for it, and a chunk whose embedding
\* request failed (empty vector) is not written at all: after a reindex that
\* cleared the document, the store holds exactly the chunks that got an
\* embedding and were accepted by the store.
C15_OnlyEmbeddedChunksStored ==
    /\ \A e \in store :
          /\ e.embedding # <<>>
          /\ \E v \in Versions : \E i \in 1..Len(SampleChunks[v]) : HoldsChunk(e, v, i)
    /\ (LoopRan /\ ix_last.op = "reindex" /\ ~ix_last.delete_failed) =>
          /\ Cardinality(ChunksOf(store, ix_last.id)) = ix_last.stored
          /\ ix_last.stored <= ix_last.chunks - ix_last.empties

\* a reindex stored the one chunk of two that got an embedding
C15_Witness ==
    /\ LoopRan /\ ix_last.op = "reindex" /\ ~ix_last.delete_failed
    /\ ix_last.chunks = 2 /\ ix_last.empties = 1
    /\ Cardinality(ChunksOf(store, ix_last.id)) = 1
    /\ \A e \in ChunksOf(store, ix_last.id) : e.embedding # <<>>


-----------------------------------------------------------------------------
(* Concurrent calls on one vector store.  The service takes no lock; every
   call of the collection (get, add, delete, query) is one step, and the
   threads' steps interleave freely. *)

\* what the index variables other than the store and the source hold
indexGhosts == <<ix_last, ix_again, ix_prev_ret, ix_prev_had0,
                 ia_pc, ia_docs, ia_pos, ia_stats>>

\* the chunks of document d, fully indexed from text v
FullChunks(d, v) ==
    IndexDocumentRun({}, d, TRUE, v, TRUE,
                     [fetch |-> "ok",
                      outcome |-> [i \in 0..(Len(SampleChunks[v]) - 1) |-> "ok"]]).store

\* a call of index_document about to start
StartIndexCall(d, force_reindex, had) ==
    [NoIndexCall EXCEPT !.pc = "call", !.id = d, !.force = force_reindex,
                        !.had = had]

\* another index_document is between its first and its last store call
Overlapping(t) ==
    \E u \in IndexerThreads \ {t} : cc_index[u].pc \in {"fetch", "loop"}

Stepped(t, call) ==
    cc_index' = [cc_index EXCEPT
                   ![t] = [call EXCEPT !.overlapped = @ \/ Overlapping(t)]]

\* index_document, lines 87-90: the lookup of the first chunk
IndexCheck(t) ==
    LET c == cc_index[t]
    IN  /\ c.pc = "call"
        /\ \E lookup_ok \in LookupChoices(store, ChunkDocId(c.id, 0), c.force) :
              IF ~c.force /\ DocumentExists(store, ChunkDocId(c.id, 0), lookup_ok)
              THEN Stepped(t, [c EXCEPT !.pc = "done", !.ret = TRUE,
                                        !.lookup_ok = lookup_ok])
              ELSE Stepped(t, [c EXCEPT !.pc = "fetch", !.lookup_ok = lookup_ok])
        /\ UNCHANGED <<store, version, indexGhosts, cc_delete, cc_search>>
        /\ UNCHANGED <<chunkVars, qaVars, ec_call, svVars, nw_call, sd_call>>

\* index_document, lines 93-115: the document is fetched and chunked
IndexFetch(t) ==
    LET c == cc_index[t]
    IN  /\ c.pc = "fetch"
        /\ \E f \in FetchOutcomes :
              IF f = "fail" \/ SourceText(version[c.id], f) = <<>>
              THEN Stepped(t, [c EXCEPT !.pc = "done", !.ret = FALSE, !.fetch = f])
              ELSE Stepped(t, [c EXCEPT !.pc = "loop", !.fetch = f])
        /\ UNCHANGED <<store, version, indexGhosts, cc_delete, cc_search>>
        /\ UNCHANGED <<chunkVars, qaVars, ec_call, svVars, nw_call, sd_call>>

\* index_document, lines 121-148: one chunk of the loop
IndexChunk(t) ==
    LET c == cc_index[t]
        chunks == SampleChunks[version[c.id]]
    IN  /\ c.pc = "loop"
        /\ c.idx < Len(chunks)
        /\ \E what \in ChunkOutcomes :
              LET chunk_text == chunks[c.idx + 1]
                  chunk_metadata == [chunk_number    |-> ToString(c.idx),
                                     total_chunks    |-> ToString(Len(chunks)),
                                     doc_id_original |-> ToString(c.id)]
                  embedding == GenerateEmbedding(chunk_text, what)
                  added == AddDocument(store, ChunkDocId(c.id, c.idx),
                                       Slice(chunk_text, 0, PreviewLen),
                                       embedding, chunk_metadata,
                                       what # "add_fail")
                  met == [c EXCEPT !.outcome = Append(@, what)]
              IN  IF what = "emb_raise"
                  THEN /\ Stepped(t, [met EXCEPT !.pc = "done", !.ret = FALSE])
                       /\ store' = store
                  ELSE IF embedding = <<>>
                  THEN /\ Stepped(t, [met EXCEPT !.all_success = FALSE,
                                                 !.idx = @ + 1])
                       /\ store' = store
                  ELSE /\ Stepped(t, [met EXCEPT !.all_success = @ /\ added.ok,
                                                 !.idx = @ + 1])
                       /\ store' = added.store
        /\ UNCHANGED <<version, indexGhosts, cc_delete, cc_search>>
        /\ UNCHANGED <<chunkVars, qaVars, ec_call, svVars, nw_call, sd_call>>

\* index_document, lines 150-154: the loop is through
IndexReturn(t) ==
    LET c == cc_index[t]
    IN  /\ c.pc = "loop"
        /\ c.idx >= Len(SampleChunks[version[c.id]])
        /\ Stepped(t, [c EXCEPT !.pc = "done", !.ret = c.all_success])
        /\ UNCHANGED <<store, version, indexGhosts, cc_delete, cc_search>>
        /\ UNCHANGED <<chunkVars, qaVars, ec_call, svVars, nw_call, sd_call>>

\* delete_all_document_chunks, lines 250-254 and 258: collection.get(where);
\* without ids the call returns at once
DeleteGet ==
    /\ cc_delete.pc = "get"
    /\ \E store_ok \in BOOLEAN :
          LET ids == {e.id : e \in ChunksOf(store, cc_delete.id)}
          IN  cc_delete' =
                IF ~store_ok
                THEN [cc_delete EXCEPT !.pc = "done", !.ret = FALSE,
                                       !.left = ChunksOf(store, cc_delete.id)]
                ELSE IF ids = {}
                THEN [cc_delete EXCEPT !.pc = "done", !.ret = TRUE, !.left = {}]
                ELSE [cc_delete EXCEPT !.pc = "delete", !.ids = ids]
    /\ UNCHANGED <<store, version, indexGhosts, cc_index, cc_search>>
    /\ UNCHANGED <<chunkVars, qaVars, ec_call, svVars, nw_call, sd_call>>

\* delete_all_document_chunks, lines 255-257: collection.delete(ids)
DeleteIds ==
    /\ cc_delete.pc = "delete"
    /\ \E store_ok \in BOOLEAN :
          LET after == IF store_ok
                       THEN {e \in store : e.id \notin cc_delete.ids}
                       ELSE store
          IN  /\ store' = after
              /\ cc_delete' = [cc_delete EXCEPT !.pc = "done", !.ret = store_ok,
                                                !.left = ChunksOf(after, cc_delete.id)]
    /\ UNCHANGED <<version, indexGhosts, cc_index, cc_search>>
    /\ UNCHANGED <<chunkVars, qaVars, ec_call, svVars, nw_call, sd_call>>

\* a retrieval: one collection.query, which sees the chunks stored then
Retrieve ==
    /\ cc_search.pc = "ready"
    /\ cc_search' = [cc_search EXCEPT
                       !.pc = "done",
                       !.seen = {e.metadata.chunk_number :
                                   e \in ChunksOf(store, cc_search.id)}]
    /\ UNCHANGED <<store, version, indexGhosts, cc_index, cc_delete>>
    /\ UNCHANGED <<chunkVars, qaVars, ec_call, svVars, nw_call, sd_call>>

\* a delete of document 1, an index_document of document 1 and a retrieval,
\* all at once; document 1 holds the text of two chunks and is indexed
\* already or not at all
DeleteInit ==
    /\ version = <<NumTexts>>
    /\ \E had \in BOOLEAN, force_reindex \in BOOLEAN :
          /\ store = IF had THEN FullChunks(1, NumTexts) ELSE {}
          /\ cc_index = [t \in IndexerThreads |->
                           IF t = "a" THEN StartIndexCall(1, force_reindex, had)
                           ELSE NoIndexCall]
    /\ cc_delete = [NoDelete EXCEPT !.pc = "get", !.id = 1]
    /\ cc_search = [NoRetrieval EXCEPT !.pc = "ready", !.id = 1]
    /\ ix_last = NoCall
    /\ ix_again = FALSE
    /\ ix_prev_ret = FALSE
    /\ ix_prev_had0 = FALSE
    /\ ia_pc = "idle"
    /\ ia_docs = <<>>
    /\ ia_pos = 0
    /\ ia_stats = NoStats
    /\ ec_call = NoEstimate
    /\ ServicesIdle
    /\ nw_call = NoOperation
    /\ sd_call = NoSearchCall
    /\ ChunkIdle
    /\ QAIdle

DeleteNext ==
    \/ \E t \in IndexerThreads : IndexCheck(t)
    \/ \E t \in IndexerThreads : IndexFetch(t)
    \/ \E t \in IndexerThreads : IndexChunk(t)
    \/ \E t \in IndexerThreads : IndexReturn(t)
    \/ DeleteGet
    \/ DeleteIds
    \/ Retrieve

SpecDelete == DeleteInit /\ [][DeleteNext]_vars

\* C16: delete_all_document_chunks(id) removes all chunks of the document:
\* when it returns with success no chunk of id is in the store, and no
\* retrieval, however it interleaves with the delete and with a concurrent
\* index_document of the same id, sees the document with only some of its
\* chunks.
C16_DeleteIsAtomic ==
    /\ (cc_delete.pc = "done" /\ cc_delete.ret) => cc_delete.left = {}
    /\ cc_search.pc = "done" =>
          \/ cc_search.seen = {}
          \/ Cardinality(cc_search.seen) = Len(SampleChunks[version[cc_search.id]])


-----------------------------------------------------------------------------
(* Two index_document calls of different documents at once *)

\* thread a indexes document 1 and thread b document 2; each document is
\* indexed already or not at all
TwoIndexersInit ==
    /\ version \in [1..2 -> Versions]
    /\ \E had \in [IndexerThreads -> BOOLEAN],
          force_reindex \in [IndexerThreads -> BOOLEAN] :
          /\ cc_index = [t \in IndexerThreads |->
                           StartIndexCall(IF t = "a" THEN 1 ELSE 2,
                                          force_reindex[t], had[t])]
          /\ store = UNION {IF had[t]
                            THEN FullChunks(cc_index[t].id, version[cc_index[t].id])
                            ELSE {} : t \in IndexerThreads}
    /\ cc_delete = NoDelete
    /\ cc_search = NoRetrieval
    /\ ix_last = NoCall
    /\ ix_again = FALSE
    /\ ix_prev_ret = FALSE
    /\ ix_prev_had0 = FALSE
    /\ ia_pc = "idle"
    /\ ia_docs = <<>>
    /\ ia_pos = 0
    /\ ia_stats = NoStats
    /\ ec_call = NoEstimate
    /\ ServicesIdle
    /\ nw_call = NoOperation
    /\ sd_call = NoSearchCall
    /\ ChunkIdle
    /\ QAIdle

TwoIndexersNext ==
    \/ \E t \in IndexerThreads : IndexCheck(t)
    \/ \E t \in IndexerThreads : IndexFetch(t)
    \/ \E t \in IndexerThreads : IndexChunk(t)
    \/ \E t \in IndexerThreads : IndexReturn(t)

SpecTwoIndexers == TwoIndexersInit /\ [][TwoIndexersNext]_vars

\* the store before the two calls
StartStore ==
    UNION {IF cc_index[t].had
           THEN FullChunks(cc_index[t].id, version[cc_index[t].id])
           ELSE {} : t \in IndexerThreads}

\* what the collaborators did during the call of thread t
EnvOf(t) ==
    LET c == cc_index[t]
        n == Len(SampleChunks[version[c.id]])
    IN  [fetch |-> IF c.fetch = "none" THEN "ok" ELSE c.fetch,
         outcome |-> [i \in 0..(n - 1) |->
                        IF i + 1 <= Len(c.outcome) THEN c.outcome[i + 1] ELSE "ok"]]

\* index_document of thread t, run alone on store st
AloneOn(st, t) ==
    LET c == cc_index[t]
    IN  IndexDocumentRun(st, c.id, c.force, version[c.id], c.lookup_ok, EnvOf(t))

\* the store after the call of thread t followed by the call of thread u
SequentialStore(t, u) == AloneOn(AloneOn(StartStore, t).store, u).store

BothReturned == \A t \in IndexerThreads : cc_index[t].pc = "done"

\* C17: index_document(a) and index_document(b) of different documents do
\* not interfere: however their steps interleave, the store ends up as after
\* the two calls one after the other (in either order, with the same
\* results), and no step of one call adds, changes or removes a chunk of the
\* other call's document.
C17_DifferentDocumentsIndependent ==
    /\ [](BothReturned =>
            /\ store = SequentialStore("a", "b")
            /\ store = SequentialStore("b", "a")
            /\ \A t \in IndexerThreads :
                  cc_index[t].ret = AloneOn(StartStore, t).ret)
    /\ [][\A t, u \in IndexerThreads :
            (t # u /\ cc_index'[t] # cc_index[t]) =>
                ChunksOf(store', cc_index[u].id) = ChunksOf(store, cc_index[u].id)]_vars

\* both calls stored their chunks while the other was under way
C17_Witness ==
    /\ BothReturned
    /\ \A t \in IndexerThreads :
          /\ cc_index[t].overlapped
          /\ ~cc_index[t].had
          /\ cc_index[t].ret
          /\ ChunksOf(store, cc_index[t].id) =
                FullChunks(cc_index[t].id, version[cc_index[t].id])
    /\ \E t \in IndexerThreads : Len(SampleChunks[version[cc_index[t].id]]) = 2


-----------------------------------------------------------------------------
(* get_qa_services: the lazy construction of the services, called by every
   request that needs them.  The function takes no lock; each assignment of
   a global is one step. *)

\* PAPERLESS_URL and PAPERLESS_TOKEN are set or not; then requests arrive
ServicesInit ==
    /\ sv_globals = NoServices
    /\ \E configured \in BOOLEAN :
          sv_request = [t \in RequestThreads |->
                          [pc |-> "check", configured |-> configured,
                           got |-> NoServices]]
    /\ sv_built = NoneBuilt
    /\ ec_call = NoEstimate
    /\ nw_call = NoOperation
    /\ sd_call = NoSearchCall
    /\ ConcIdle
    /\ ChunkIdle
    /\ IndexIdle
    /\ QAIdle

Goes(t, pc) == sv_request' = [sv_request EXCEPT ![t].pc = pc]

Built(service) == sv_built' = [sv_built EXCEPT ![service] = @ + 1]

\* 'if qa_system is None:'
ServicesCheck(t) ==
    /\ sv_request[t].pc = "check"
    /\ Goes(t, IF sv_globals.qa_system = NoService THEN "embedding" ELSE "return")
    /\ UNCHANGED <<sv_globals, sv_built>>
    /\ UNCHANGED <<chunkVars, indexVars, qaVars, ec_call, concVars, nw_call, sd_call>>

\* embedding_service = EmbeddingService(...)
ConstructEmbedding(t) ==
    /\ sv_request[t].pc = "embedding"
    /\ sv_globals' = [sv_globals EXCEPT
                        !.embedding_service = [NoService EXCEPT !.by = t]]
    /\ Built("embedding_service")
    /\ Goes(t, "store")
    /\ UNCHANGED <<chunkVars, indexVars, qaVars, ec_call, concVars, nw_call, sd_call>>

\* vector_store = VectorStore(...)
ConstructStore(t) ==
    /\ sv_request[t].pc = "store"
    /\ sv_globals' = [sv_globals EXCEPT
                        !.vector_store = [NoService EXCEPT !.by = t]]
    /\ Built("vector_store")
    /\ Goes(t, "indexer")
    /\ UNCHANGED <<chunkVars, indexVars, qaVars, ec_call, concVars, nw_call, sd_call>>

\* 'if paperless_url and paperless_token:' document_indexer =
\* DocumentIndexer(paperless_client, embedding_service, vector_store), with
\* the globals as they are read then
ConstructIndexer(t) ==
    /\ sv_request[t].pc = "indexer"
    /\ IF sv_request[t].configured
       THEN /\ sv_globals' = [sv_globals EXCEPT
                                !.document_indexer =
                                   [by |-> t,
                                    embeddings |-> sv_globals.embedding_service.by,
                                    vector_store |-> sv_globals.vector_store.by]]
            /\ Built("document_indexer")
       ELSE UNCHANGED <<sv_globals, sv_built>>
    /\ Goes(t, "qa")
    /\ UNCHANGED <<chunkVars, indexVars, qaVars, ec_call, concVars, nw_call, sd_call>>

\* qa_system = QASystem(embedding_service, vector_store, ollama_classifier)
ConstructQA(t) ==
    /\ sv_request[t].pc = "qa"
    /\ sv_globals' = [sv_globals EXCEPT
                        !.qa_system =
                           [by |-> t,
                            embeddings |-> sv_globals.embedding_service.by,
                            vector_store |-> sv_globals.vector_store.by]]
    /\ Built("qa_system")
    /\ Goes(t, "return")
    /\ UNCHANGED <<chunkVars, indexVars, qaVars, ec_call, concVars, nw_call, sd_call>>

\* 'return {...}': the four globals as they are then
ServicesReturn(t) ==
    /\ sv_request[t].pc = "return"
    /\ sv_request' = [sv_request EXCEPT ![t].pc = "done", ![t].got = sv_globals]
    /\ UNCHANGED <<sv_globals, sv_built>>
    /\ UNCHANGED <<chunkVars, indexVars, qaVars, ec_call, concVars, nw_call, sd_call>>

ServicesNext ==
    \/ \E t \in RequestThreads : ServicesCheck(t)
    \/ \E t \in RequestThreads : ConstructEmbedding(t)
    \/ \E t \in RequestThreads : ConstructStore(t)
    \/ \E t \in RequestThreads : ConstructIndexer(t)
    \/ \E t \in RequestThreads : ConstructQA(t)
    \/ \E t \in RequestThreads : ServicesReturn(t)

SpecServices == ServicesInit /\ [][ServicesNext]_vars

\* the services of one answer of get_qa_services fit together: the question
\* answering system, and the indexer if there is one, work on the embedding
\* service and the vector store handed out with them
Consistent(got) ==
    /\ got.qa_system.embeddings = got.embedding_service.by
    /\ got.qa_system.vector_store = got.vector_store.by
    /\ got.document_indexer # NoService =>
          /\ got.document_indexer.embeddings = got.embedding_service.by
          /\ got.document_indexer.vector_store = got.vector_store.by

\* C18: the construction of the process-wide services is idempotent and
\* thread-safe: however concurrent requests interleave in get_qa_services,
\* each service is constructed at most once and every caller receives the
\* same instances, which fit together.
C18_ServicesConstructedOnce ==
    /\ \A service \in DOMAIN sv_built : sv_built[service] <= 1
    /\ \A t, u \in RequestThreads :
          (sv_request[t].pc = "done" /\ sv_request[u].pc = "done") =>
              sv_request[t].got = sv_request[u].got
    /\ \A t \in RequestThreads :
          sv_request[t].pc = "done" => Consistent(sv_request[t].got)


-----------------------------------------------------------------------------
(* The network calls of one operation of the core.  A provider answers a
   request, with a result or an error, or it never does; a request that
   carries a timeout ends with requests.exceptions.Timeout when the time is
   up, a request without one waits on. *)

\* timeout=30 of the embedding request, in seconds
EmbeddingTimeout == 30

\* timeout=180 of the generation request, in seconds
GenerateTimeout == 180

\* most chunks of a document, and most documents of a batch run
MaxNetChunks == 2
MaxNetDocs == 2

\* the timeout of a request: the requests.get calls of PaperlessClient pass
\* none
RequestTimeout(kind) ==
    CASE kind = "embed" -> EmbeddingTimeout
      [] kind = "generate" -> GenerateTimeout
      [] OTHER -> None

\* the requests of index_document: get_document, then one embedding by chunk
IndexDocumentPlan(chunks) == <<"fetch">> \o [i \in 1..chunks |-> "embed"]

RECURSIVE IndexAllPlan(_, _)
IndexAllPlan(docs, chunks) ==
    IF docs = 0 THEN <<>>
    ELSE IndexDocumentPlan(chunks) \o IndexAllPlan(docs - 1, chunks)

\* the requests of answer_question: with USE_MULTI_QUERY the variants are
\* generated first and each query is embedded, then the answer is generated
AnswerPlan(multi) ==
    IF multi
    THEN <<"generate">> \o [i \in 1..(1 + NVariants) |-> "embed"] \o <<"generate">>
    ELSE <<"embed", "generate">>

Operations ==
    {[op |-> "index_document", plan |-> IndexDocumentPlan(chunks)] :
        chunks \in 1..MaxNetChunks}
    \cup {[op |-> "index_all_documents",
           plan |-> <<"list">> \o IndexAllPlan(docs, chunks)] :
            docs \in 0..MaxNetDocs, chunks \in 1..MaxNetChunks}
    \cup {[op |-> "answer_question", plan |-> AnswerPlan(multi)] :
            multi \in BOOLEAN}

\* the request the operation makes after request step has come back as the
\* last entry of log, Len(plan) + 1 when it makes no more.  A failed
\* get_all_documents leaves no document to index, a failed get_document ends
\* the indexing of that document, a failed embedding of a chunk does not;
\* without variants only the question is searched, and without any query
\* embedding no answer is generated.
NextRequest(op, plan, step, log) ==
    LET ok == log[Len(log)] = "ok"
        later == {i \in (step + 1)..Len(plan) : plan[i] = "fetch"}
        last == Len(plan)
    IN  IF op = "answer_question"
        THEN IF plan[step] = "generate" THEN step + 1
             ELSE IF last = 2 THEN (IF ok THEN 2 ELSE 3)
             ELSE IF step = 2 /\ log[1] # "ok" THEN (IF ok THEN last ELSE last + 1)
             ELSE IF step = last - 1
                  THEN (IF \E i \in 2..Len(log) : log[i] = "ok"
                        THEN last ELSE last + 1)
             ELSE step + 1
        ELSE IF plan[step] = "list" /\ ~ok THEN last + 1
        ELSE IF plan[step] = "fetch" /\ ~ok
             THEN (IF later = {} THEN last + 1
                   ELSE CHOOSE i \in later : \A j \in later : i <= j)
        ELSE step + 1

\* 'except requests.exceptions.RequestException': what the caller is handed
\* for a request that came back with outcome
Handled(outcome) == IF outcome = "ok" THEN "result" ELSE "failure"

NetInit ==
    /\ \E o \in Operations :
          nw_call = [NoOperation EXCEPT !.op = o.op, !.plan = o.plan, !.step = 1]
    /\ ec_call = NoEstimate
    /\ sd_call = NoSearchCall
    /\ ConcIdle
    /\ ServicesIdle
    /\ ChunkIdle
    /\ IndexIdle
    /\ QAIdle

\* requests.get / requests.post is called
NetSend ==
    /\ ~nw_call.returned
    /\ nw_call.wait = "idle"
    /\ nw_call.step <= Len(nw_call.plan)
    /\ nw_call' = [nw_call EXCEPT !.wait = "pending"]
    /\ UNCHANGED <<chunkVars, indexVars, qaVars, ec_call, concVars, svVars, sd_call>>

Received(outcome) ==
    LET log == Append(nw_call.log, outcome)
    IN  nw_call' = [nw_call EXCEPT
                      !.wait = "idle",
                      !.log = log,
                      !.failures = IF Handled(outcome) = "failure" THEN @ + 1 ELSE @,
                      !.step = NextRequest(nw_call.op, nw_call.plan, @,
                                           [log EXCEPT ![Len(log)] =
                                              IF Handled(outcome) = "failure"
                                              THEN "error" ELSE "ok"])]

\* the provider answers: a response, or an HTTP or connection error
NetRespond ==
    /\ nw_call.wait = "pending"
    /\ \E outcome \in {"ok", "error"} : Received(outcome)
    /\ UNCHANGED <<chunkVars, indexVars, qaVars, ec_call, concVars, svVars, sd_call>>

\* the timeout of the pending request is up
NetTimeout ==
    /\ nw_call.wait = "pending"
    /\ RequestTimeout(nw_call.plan[nw_call.step]) # None
    /\ Received("timeout")
    /\ UNCHANGED <<chunkVars, indexVars, qaVars, ec_call, concVars, svVars, sd_call>>

\* the operation returns
NetReturn ==
    /\ ~nw_call.returned
    /\ nw_call.wait = "idle"
    /\ nw_call.step > Len(nw_call.plan)
    /\ nw_call' = [nw_call EXCEPT !.returned = TRUE]
    /\ UNCHANGED <<chunkVars, indexVars, qaVars, ec_call, concVars, svVars, sd_call>>

NetNext ==
    \/ NetSend
    \/ NetRespond
    \/ NetTimeout
    \/ NetReturn

\* the core goes on when it can and a timeout that is set expires; nothing
\* obliges a provider to answer
SpecNetwork ==
    /\ NetInit
    /\ [][NetNext]_vars
    /\ WF_vars(NetSend)
    /\ WF_vars(NetTimeout)
    /\ WF_vars(NetReturn)

\* C19: every network call of the core (embedding, generation, document
\* fetch) carries a timeout, so that index_document, index_all_documents and
\* answer_question return in the end also when a provider never answers, and
\* a call that timed out leaves the operation where a provider error would.
C19_EveryCallTimesOut ==
    /\ [](nw_call.wait = "pending" =>
            RequestTimeout(nw_call.plan[nw_call.step]) # None)
    /\ <>(nw_call.returned)
    /\ [][NetTimeout =>
            nw_call'.step = NextRequest(nw_call.op, nw_call.plan, nw_call.step,
                                        Append(nw_call.log, "error"))]_vars


\* C20: for every non-empty input text, every chunk _chunk_text produces is
\* non-empty after trimming.
C20_NoEmptyChunk ==
    (ck_pc = "done" /\ Len(ck_text) > 0) =>
        \A i \in 1..Len(ck_chunks) : Strip(ck_chunks[i]) # <<>>


-----------------------------------------------------------------------------
(* Claims about the windows of the chunker *)

\* the chunks joined, each without the part its window shares with the
\* window before it
RECURSIVE JoinWithoutOverlap(_, _, _)
JoinWithoutOverlap(chunks, windows, i) ==
    IF i > Len(chunks) THEN <<>>
    ELSE LET shared == IF i = 1 THEN 0
                       ELSE Max(windows[i - 1].end - windows[i].start, 0)
         IN  Slice(chunks[i], shared, Len(chunks[i]))
                 \o JoinWithoutOverlap(chunks, windows, i + 1)

\* C21: for overlap < chunk_size the windows of _chunk_text start at strictly
\* increasing positions and, once the loop has ended, cover every position
\* of the text (the first starts at 0, each starts no later than the one
\* before it ends, the last reaches the end of the text), and the chunks
\* joined without their overlap regions give back the text.
C21_WindowsReconstructText ==
    ck_overlap < ck_size =>
        /\ \A i \in 1..(Len(ck_windows) - 1) :
               ck_windows[i + 1].start > ck_windows[i].start
        /\ (ck_pc = "done" /\ ck_windows # <<>>) =>
               /\ ck_windows[1].start = 0
               /\ \A i \in 1..(Len(ck_windows) - 1) :
                      ck_windows[i + 1].start <= ck_windows[i].end
               /\ ck_windows[Len(ck_windows)].end >= Len(ck_text)
               /\ JoinWithoutOverlap(ck_chunks, ck_windows, 1) = ck_text


\* C22: when len(text) <= chunk_size, _chunk_text returns exactly one chunk,
\* and that chunk equals the text up to the trimming of leading and trailing
\* whitespace; this holds for the empty text too.
C22_ShortTextOneChunk ==
    (ck_pc = "done" /\ Len(ck_text) <= ck_size) =>
        /\ Len(ck_chunks) = 1
        /\ Strip(ck_chunks[1]) = Strip(ck_text)

\* a short text with whitespace at an edge has been returned as one chunk
C22_Witness ==
    /\ ck_pc = "done"
    /\ Len(ck_text) <= ck_size
    /\ Strip(ck_text) # ck_text
    /\ Strip(ck_text) # <<>>
    /\ Len(ck_chunks) = 1


\* the chunk appended for window i is the text of the window, trimmed
ChunkIsWindow(i) ==
    ck_chunks[i] = Strip(Slice(ck_text, ck_windows[i].start, ck_windows[i].end))

\* C25 (as stated): a window that does not reach the end of the text ends at
\* the last '.' or line break in it if and only if that boundary is at
\* position >= chunk_size/2; otherwise the raw cut at chunk_size is kept.
C25_SplitAtHalfOrLater ==
    \A i \in 1..Len(ck_windows) :
        LET w == ck_windows[i]
        IN  w.looked =>
                /\ w.end = IF w.split_point >= 0 /\ 2 * w.split_point >= ck_size
                           THEN w.start + w.split_point + 1
                           ELSE w.start + ck_size
                /\ ChunkIsWindow(i)

\* C25 (amended): a window that does not reach the end of the text ends at
\* the last '.' or line break in it if and only if the index of that
\* boundary in the window is strictly greater than chunk_size/2; otherwise,
\* also for a boundary exactly at chunk_size/2, the raw cut is kept.
C25_SplitLaterThanHalf ==
    \A i \in 1..Len(ck_windows) :
        LET w == ck_windows[i]
        IN  w.looked =>
                /\ w.end = IF w.split_point >= 0 /\ 2 * w.split_point > ck_size
                           THEN w.start + w.split_point + 1
                           ELSE w.start + ck_size
                /\ ChunkIsWindow(i)

\* a window was shortened to a boundary in its second half, and the call
\* has returned
C25_Witness ==
    /\ ck_pc = "done"
    /\ \E i \in 1..Len(ck_windows) :
           /\ ck_windows[i].looked
           /\ 2 * ck_windows[i].split_point > ck_size
           /\ ck_windows[i].end < ck_windows[i].raw_end


\* C26: in _chunk_text the window that reaches the end of the text is the
\* last one: no window follows a window whose end is at or beyond len(text),
\* so no window lies wholly inside the window before it.
C26_EndWindowIsLast ==
    \A i \in 1..(Len(ck_windows) - 1) :
        /\ ck_windows[i].end < Len(ck_text)
        /\ ~(/\ ck_windows[i + 1].start >= ck_windows[i].start
             /\ Min(ck_windows[i + 1].end, Len(ck_text))
                    <= Min(ck_windows[i].end, Len(ck_text)))


-----------------------------------------------------------------------------
(* Claims about the sources of an answer *)

\* C24: the relevance_score of a source is None only when the distance of
\* its result is not available; for every result with a distance d, d = 0
\* included, it is 1 - d/2 (here 200 - d, in two-hundredths).
C24_RelevanceFromDistance ==
    (AnswerDone /\ qa_resp.kind = "answer"
                /\ Len(qa_resp.sources) = Len(qa_docs)) =>
        \A i \in 1..Len(qa_docs) :
            qa_resp.sources[i].relevance_score =
                IF qa_docs[i].distance = None THEN None
                ELSE 200 - qa_docs[i].distance


-----------------------------------------------------------------------------
(* Claims about repeated indexing *)

\* C27: whenever index_document(id, force_reindex=False) returns success,
\* the store holds every chunk 0..total_chunks-1 of id, total_chunks being
\* the value the stored chunks of id carry: a document that an earlier
\* failed run left partly indexed is not reported as indexed.
C27_SuccessMeansComplete ==
    (ix_last.op = "index" /\ ~ix_last.force /\ ix_last.ret) =>
        /\ ChunksOf(store, ix_last.id) # {}
        /\ \A e \in ChunksOf(store, ix_last.id) :
               \A v \in Versions :
                   e.metadata.total_chunks = ToString(Len(SampleChunks[v]))
                       => HoldsChunks(store, ix_last.id, Len(SampleChunks[v]))


\* reindex_document(d) has just returned failure before its loop: the
\* document could not be fetched or has no text content
ReindexFailedAtFetch(d) ==
    /\ ReindexDocument(d)
    /\ ~ix_last'.ret /\ ix_last'.fetched /\ ix_last'.chunks = 0

\* C28 (as stated): if reindex_document(id) returns failure because the
\* document cannot be fetched or has no text content, the chunks stored for
\* id before the call are still in the store.
C28_FailedReindexKeepsChunks ==
    [][\A d \in DocIds :
          ReindexFailedAtFetch(d) => ChunksOf(store, d) \subseteq store']_vars

\* C28 (amended): if reindex_document(id) returns failure because the
\* document cannot be fetched or has no text content, the chunks stored for
\* id before the call have been deleted (they are all still there only when
\* the store's delete itself failed), no chunk has been added, and the
\* chunks of other documents are as they were.
C28_FailedReindexLeavesDeleted ==
    [][\A d \in DocIds :
          ReindexFailedAtFetch(d) =>
              /\ ChunksOf(store', d) =
                     IF ix_last'.delete_failed THEN ChunksOf(store, d) ELSE {}
              /\ store' \ ChunksOf(store', d) = store \ ChunksOf(store, d)]_vars

\* a re-index that could not fetch the document has removed both chunks the
\* document had in the store
C28_Witness ==
    /\ ix_last.op = "reindex"
    /\ ~ix_last.ret /\ ix_last.fetched /\ ix_last.chunks = 0
    /\ ix_last.deleted = 2
    /\ ChunksOf(store, ix_last.id) = {}


\* C30: when index_all_documents runs over a corpus that an earlier run
\* indexed completely and that has not changed since, every document of the
\* run is counted as skipped and the run reports indexed = 0.
C30_SecondRunSkipsAll ==
    (IndexAllDone /\ ix_last.complete) =>
        /\ ia_stats.skipped = Len(ia_docs)
        /\ ia_stats.indexed = 0


-----------------------------------------------------------------------------
(* search_documents under search_documents_multi: the filters, the query   *)
(* expansion and the calls of the generation provider for each variant.    *)
(* A query is a sequence of words; a dict is a set of <<key, value>>.      *)

\* str.lower() on the words of the sample queries
Lower(word) ==
    CASE word = "Rechnung" -> "rechnung"
      [] word = "Steuer"   -> "steuer"
      [] word = "ID"       -> "id"
      [] OTHER             -> word

\* SYNONYM_MAP: its first five entries, in the order of the dict
SynonymMap ==
    << [key |-> <<"steuer", "id">>,
        synonyms |-> <<"Steuer-ID", "Steuer-Identifikationsnummer",
                       "Steuernummer", "Tax ID", "TIN">>],
       [key |-> <<"steuernummer">>,
        synonyms |-> <<"Steuer-ID", "Steuer-Identifikationsnummer",
                       "Tax ID", "TIN">>],
       [key |-> <<"rechnung">>,
        synonyms |-> <<"Rechnung", "Invoice", "Faktura", "Beleg">>],
       [key |-> <<"lieferschein">>,
        synonyms |-> <<"Lieferschein", "Delivery Note", "Warenbegleitschein">>],
       [key |-> <<"vertrag">>,
        synonyms |-> <<"Vertrag", "Contract", "Vereinbarung">>] >>

\* the questions asked: one key and a year, two keys (in the other order
\* than the map's), a key of two words, no key
SampleQueries ==
    { <<"Rechnung", "2024">>, <<"vertrag", "Rechnung">>, <<"Steuer", "ID">>,
      <<"haus">> }

\* 'key in query_lower', word by word (no word of the sample queries has
\* a key as a proper part)
Contains(text, key) ==
    \E a \in 0..(Len(text) - Len(key)) :
        \A j \in 1..Len(key) : text[a + j] = key[j]

\* the loop over SYNONYM_MAP.items() from entry k on: expanded_terms
RECURSIVE ExpandedTerms(_, _)
ExpandedTerms(query_lower, k) ==
    IF k > Len(SynonymMap) THEN <<>>
    ELSE (IF Contains(query_lower, SynonymMap[k].key)
          THEN SynonymMap[k].synonyms ELSE <<>>)
             \o ExpandedTerms(query_lower, k + 1)

\* what the generation provider gives for the synonym prompt
SynonymOutcomes == {"text", "blank"}

\* QASystem._expand_query_llm: f"{query} {synonyms_text}", or the query
ExpandQueryLLM(query, synonyms_text) ==
    IF synonyms_text = "text" THEN query \o <<"generated synonyms">> ELSE query

\* (an expansion that asks the provider whenever the flag is set)
ExpandQuery_FlagFirst(query, use_llm, synonyms_text) ==
    LET query_lower    == [i \in DOMAIN query |-> Lower(query[i])]
        expanded_terms == ExpandedTerms(query_lower, 1)
    IN  IF use_llm
        THEN [ret |-> ExpandQueryLLM(query, synonyms_text), llm |-> TRUE]
        ELSE [ret |-> query \o expanded_terms, llm |-> FALSE]

\* QASystem._expand_query: what it returns, and whether it called the
\* generation provider; use_llm is USE_LLM_EXPANSION
ExpandQuery(query, use_llm, synonyms_text) ==
    LET query_lower    == [i \in DOMAIN query |-> Lower(query[i])]
        expanded_terms == ExpandedTerms(query_lower, 1)
    IN  IF expanded_terms # <<>>
        THEN [ret |-> query \o expanded_terms, llm |-> FALSE]
        ELSE IF use_llm
        THEN [ret |-> ExpandQueryLLM(query, synonyms_text), llm |-> TRUE]
        ELSE [ret |-> query, llm |-> FALSE]

\* MetadataExtractor._extract_filters_regex: the year 202x (no sample query
\* names a month)
ExtractFiltersRegex(query) ==
    {<<"created_year", query[i]>> : i \in {j \in DOMAIN query : query[j] = "2024"}}

\* what _extract_filters_llm parses from the provider's response: {} for an
\* empty, failed or unparseable one
FilterAnswers ==
    { {},
      {<<"document_type", "Rechnung">>},
      {<<"correspondent", "Amazon">>, <<"year", "2024">>} }

\* MetadataExtractor.extract_filters: {**regex_filters, **llm_filters}
ExtractFilters(query, llm_filters) ==
    LET regex_filters == ExtractFiltersRegex(query)
    IN  llm_filters \cup {p \in regex_filters :
                             \A q \in llm_filters : q[1] # p[1]}

\* MetadataExtractor.convert_to_chromadb_filter: document_type and
\* correspondent only; None when nothing is left
ConvertToChromadbFilter(extracted_filters) ==
    LET where_conditions ==
            {p \in extracted_filters : p[1] \in {"document_type", "correspondent"}}
    IN  IF where_conditions = {} THEN NoFilters
        ELSE [none |-> FALSE, conditions |-> where_conditions]

\* the filters a caller passes: None, {} or a condition
CallerFilters ==
    { NoFilters,
      [none |-> FALSE, conditions |-> {}],
      [none |-> FALSE, conditions |-> {<<"document_type", "Vertrag">>}] }

\* what the providers do during one search_documents call; an answer is
\* drawn only where the call asks for it
SearchEnvs(query, filters, use_llm) ==
    [filters   : IF filters.none THEN FilterAnswers ELSE {{}},
     synonyms  : IF ExpandQuery(query, use_llm, "blank").llm
                 THEN SynonymOutcomes ELSE {"blank"},
     embedding : {"ok", "empty"}]

\* QASystem.search_documents(query, n_results, filters): the filters it
\* resolves, the expanded query it embeds, its calls of the generation
\* provider, and whether the vector store was searched
SearchDocumentsCall(query, filters, use_llm, env) ==
    LET resolved == IF filters.none
                    THEN ConvertToChromadbFilter(ExtractFilters(query, env.filters))
                    ELSE filters
        expanded == ExpandQuery(query, use_llm, env.synonyms)
    IN  [query    |-> query,
         where    |-> resolved,
         expanded |-> expanded.ret,
         generate |-> (IF filters.none THEN <<"filters">> ELSE <<>>)
                          \o (IF expanded.llm THEN <<"expand">> ELSE <<>>),
         searched |-> env.embedding = "ok",
         fallback |-> FALSE]

SearchInit ==
    /\ sd_call \in [pc : {"start"}, query : SampleQueries,
                    filters : CallerFilters, use_llm : BOOLEAN,
                    queries : {<<>>}, i : {0}, searches : {<<>>}]
    /\ ec_call = NoEstimate
    /\ ConcIdle
    /\ ServicesIdle
    /\ nw_call = NoOperation
    /\ ChunkIdle
    /\ IndexIdle
    /\ QAIdle

\* search_documents_multi up to its loop: the original query and the
\* variants _generate_multi_queries made (none when it failed)
MultiStart ==
    /\ sd_call.pc = "start"
    /\ \E n \in 0..NVariants : \E variants \in [1..n -> SampleQueries] :
          sd_call' = [sd_call EXCEPT !.pc = "loop", !.i = 1,
                                     !.queries = <<sd_call.query>> \o variants]
    /\ UNCHANGED <<chunkVars, indexVars, qaVars, ec_call, concVars, svVars,
                   nw_call>>

\* one turn of 'for q in queries': search_documents(q, ..., filters=filters)
MultiSearch ==
    /\ sd_call.pc = "loop"
    /\ sd_call.i <= Len(sd_call.queries)
    /\ LET q == sd_call.queries[sd_call.i]
       IN  \E env \in SearchEnvs(q, sd_call.filters, sd_call.use_llm) :
              sd_call' = [sd_call EXCEPT
                            !.i = @ + 1,
                            !.searches = Append(@,
                                SearchDocumentsCall(q, sd_call.filters,
                                                    sd_call.use_llm, env))]
    /\ UNCHANGED <<chunkVars, indexVars, qaVars, ec_call, concVars, svVars,
                   nw_call>>

\* the loop is over and nothing raises: final_results is returned
MultiReturn ==
    /\ sd_call.pc = "loop"
    /\ sd_call.i > Len(sd_call.queries)
    /\ sd_call' = [sd_call EXCEPT !.pc = "done"]
    /\ UNCHANGED <<chunkVars, indexVars, qaVars, ec_call, concVars, svVars,
                   nw_call>>

\* the loop is over and the deduplication or the sort raises: 'return
\* self.search_documents(query, n_results, filters)'
MultiFallback ==
    /\ sd_call.pc = "loop"
    /\ sd_call.i > Len(sd_call.queries)
    /\ \E env \in SearchEnvs(sd_call.query, sd_call.filters, sd_call.use_llm) :
          sd_call' = [sd_call EXCEPT
                        !.pc = "done",
                        !.searches = Append(@,
                            [SearchDocumentsCall(sd_call.query, sd_call.filters,
                                                 sd_call.use_llm, env)
                                EXCEPT !.fallback = TRUE])]
    /\ UNCHANGED <<chunkVars, indexVars, qaVars, ec_call, concVars, svVars,
                   nw_call>>

SearchNext == MultiStart \/ MultiSearch \/ MultiReturn \/ MultiFallback

SpecSearch == SearchInit /\ [][SearchNext]_vars


-----------------------------------------------------------------------------
\* the entries of SYNONYM_MAP whose key the lowercased query contains
MatchedKeys(query) ==
    {k \in 1..Len(SynonymMap) :
        Contains([i \in DOMAIN query |-> Lower(query[i])], SynonymMap[k].key)}

\* C23: when the lowercased query contains at least one key of the static
\* synonym map, _expand_query returns the original query followed by the
\* synonym lists of all matched keys, and the generation provider is not
\* called for expansion, whether or not USE_LLM_EXPANSION is set.
C23_StaticExpansionSkipsLLM ==
    \A n \in 1..Len(sd_call.searches) :
        LET s       == sd_call.searches[n]
            matched == MatchedKeys(s.query)
            added   == SubSeq(s.expanded, Len(s.query) + 1, Len(s.expanded))
        IN  matched # {} =>
               /\ Len(s.expanded) > Len(s.query)
               /\ SubSeq(s.expanded, 1, Len(s.query)) = s.query
               /\ \A k \in matched : Contains(added, SynonymMap[k].synonyms)
               /\ \A j \in 1..Len(added) :
                     \E k \in matched : \E m \in 1..Len(SynonymMap[k].synonyms) :
                        added[j] = SynonymMap[k].synonyms[m]
               /\ \A c \in 1..Len(s.generate) : s.generate[c] # "expand"

\* a query with two keys was expanded with USE_LLM_EXPANSION set, and one
\* without a key was expanded by the provider in the same call
C23_Witness ==
    /\ sd_call.use_llm
    /\ \E n \in 1..Len(sd_call.searches) :
          /\ Cardinality(MatchedKeys(sd_call.searches[n].query)) = 2
          /\ Len(sd_call.searches[n].expanded) = 2 + 4 + 3
    /\ \E n \in 1..Len(sd_call.searches) :
          /\ MatchedKeys(sd_call.searches[n].query) = {}
          /\ \E c \in 1..Len(sd_call.searches[n].generate) :
                sd_call.searches[n].generate[c] = "expand"

\* C29: within one search_documents_multi call all query variants are
\* searched against the vector store with the same resolved filters, also
\* when the caller supplies no filters and they are extracted from the query.
C29_SameFiltersForAllVariants ==
    \A m, n \in 1..Len(sd_call.searches) :
        LET a == sd_call.searches[m]
            b == sd_call.searches[n]
        IN  (a.searched /\ b.searched /\ ~a.fallback /\ ~b.fallback)
               => a.where = b.where

=============================================================================
